---- MODULE Spec2Model ----
(***************************************************************************)
(* A model of BaseClient (crates/matrix-sdk-base/src/client.rs): the       *)
(* no-I/O state engine that folds sync responses, /members responses and   *)
(* explicit membership calls into the in-memory Rooms and the state store. *)
(*                                                                         *)
(* Every public method is one action.  An action records the call it       *)
(* models in `call`, its result in `ret`, and in `trace` the ordered list  *)
(* of the interactions the call had with its collaborators (sync_lock,     *)
(* state store, event-cache store, crypto engine, broadcast channels).     *)
(***************************************************************************)
EXTENDS Naturals, Sequences, FiniteSets, TLC

VARIABLES
    session_meta,              \* state_store.session_meta: "none" or the user id
    olm_machine,               \* olm_machine is Some(..)
    sync_token,                \* state_store.sync_token (in memory): "none" or a token
    rooms,                     \* state_store.rooms: room id -> RoomInfo of the Room
    store,                     \* what the state store has persisted
    event_cache_store,         \* room ids the event-cache store holds data for
    tracked_users,             \* users the crypto engine tracks
    ignore_user_list_changes,  \* current value of the SharedObservable<Vec<String>>
    call,                      \* the latest call and its inputs
    ret,                       \* the result of the latest call
    trace,                     \* interactions of the latest call, in order
    nops,                      \* number of calls made so far
    sync_lock,                 \* state_store.sync_lock: "free" or the task holding it
    tasks                      \* the calls in flight, by task

vars == << session_meta, olm_machine, sync_token, rooms, store, event_cache_store,
           tracked_users, ignore_user_list_changes, call, ret, trace, nops, sync_lock,
           tasks >>

\* Number of calls in one behaviour.
MaxOps == 3

(***************************************************************************)
(* Maps (BTreeMap / HashMap) are functions whose domain is the key set.    *)
(***************************************************************************)
EmptyMap == [k \in {} |-> 0]

Put(m, k, v) == [x \in (DOMAIN m) \cup {k} |-> IF x = k THEN v ELSE m[x]]

Remove(m, k) == [x \in (DOMAIN m) \ {k} |-> m[x]]

Merge(m, n) == [x \in (DOMAIN m) \cup (DOMAIN n) |-> IF x \in DOMAIN n THEN n[x] ELSE m[x]]

GetOr(m, k, d) == IF k \in DOMAIN m THEN m[k] ELSE d

\* The element of a one-element set.  { F(x) : x \in {e} } computes e once,
\* however often F uses it.
The(S) == CHOOSE x \in S : TRUE

(***************************************************************************)
(* Identifiers used by the inputs.                                         *)
(***************************************************************************)
NoToken == "none"

NoSession == "none"

Alice == "@alice"

Bob == "@bob"

Users == {Alice, Bob}

R1 == "!r1"

R2 == "!r2"

Rooms == {R1, R2}

\* BTreeMap iteration order over room ids.
RoomOrder == << R1, R2 >>

Tokens == {"t1", "t2"}

(***************************************************************************)
(* Raw events.  `type = "invalid"` is a raw JSON value that fails to       *)
(* deserialize; the other fields are the ones the engine reads.            *)
(***************************************************************************)
RawEvent(type, state_key, sender, membership, displayname, value) ==
    [type |-> type, state_key |-> state_key, sender |-> sender,
     membership |-> membership, displayname |-> displayname, value |-> value]

Member(state_key, sender, membership, displayname) ==
    RawEvent("m.room.member", state_key, sender, membership, displayname, "")

Encryption == RawEvent("m.room.encryption", "", Alice, "", "", "m.megolm.v1.aes-sha2")

HistoryVisibility(v) == RawEvent("m.room.history_visibility", "", Alice, "", "", v)

RoomName == RawEvent("m.room.name", "", Alice, "", "", "The room name")

Message == RawEvent("m.room.message", "-", Bob, "", "", "hello")

Invalid == RawEvent("invalid", "-", "-", "", "", "")

\* An m.room.encrypted event; `value` is what OlmMachine::try_decrypt_room_event
\* makes of it: "decrypts" (to a message), "decrypts_to_reaction",
\* "decrypts_to_invalid" (to a payload that does not deserialize), "utd"
\* (unable to decrypt) or "error".
Encrypted(outcome) == RawEvent("m.room.encrypted", "-", Bob, "", "", outcome)

\* try_decrypt_room_event returns RoomEventDecryptionResult::Decrypted.
Decrypts(raw) == raw.value \in {"decrypts", "decrypts_to_reaction", "decrypts_to_invalid"}

\* A beacon (live location) event, told apart by its content.
Beacon(n) == RawEvent("org.matrix.msc3672.beacon", "-", Bob, "", "", n)

\* The plaintext an encrypted event decrypts to.
Plaintext(raw) ==
    [raw EXCEPT !.type = CASE raw.value = "decrypts_to_reaction" -> "m.reaction"
                           [] raw.value = "decrypts_to_invalid" -> "invalid"
                           [] OTHER -> "m.room.message"]

\* Raw::deserialize succeeds.
Deserializes(raw) == raw.type # "invalid"

\* An m.room.power_levels event; `value` stands for its content.
PowerLevels(value) == RawEvent("m.room.power_levels", "", Alice, "", "", value)

IsStateEvent(ev) == ev.type \in {"m.room.member", "m.room.encryption",
                                 "m.room.history_visibility", "m.room.name",
                                 "m.room.power_levels"}

\* The (event type, state key) pair a state event is filed under.
StateKeyOf(ev) == << ev.type, ev.state_key >>

RECURSIVE FilterSeq(_, _)
FilterSeq(s, i) ==
    IF i > Len(s) THEN << >>
    ELSE (IF Deserializes(s[i]) THEN << s[i] >> ELSE << >>) \o FilterSeq(s, i + 1)

\* A deserialization that gives up at the first event that fails.
RECURSIVE UntilFailure(_, _)
UntilFailure(s, i) ==
    IF i > Len(s) \/ ~Deserializes(s[i]) THEN << >>
    ELSE << s[i] >> \o UntilFailure(s, i + 1)

deserialize_state_events_until_failure(raw_events) == UntilFailure(raw_events, 1)

\* deserialize_state_events / deserialize_stripped_state_events: events that fail
\* to deserialize are dropped, the others keep their order.
deserialize_state_events(raw_events) == FilterSeq(raw_events, 1)

(***************************************************************************)
(* RoomInfo.                                                               *)
(***************************************************************************)
NewRoomInfo(room_state) ==
    [state |-> room_state, state_sync |-> "NotSynced", members_sync |-> "NotSynced",
     encryption |-> FALSE, encryption_state_synced |-> FALSE,
     history_visibility |-> "none", prev_batch |-> "none", is_marked_unread |-> FALSE,
     active_members_count |-> 0]

mark_as(info, room_state) == [info EXCEPT !.state = room_state]

mark_state_fully_synced(info) == [info EXCEPT !.state_sync = "Full"]

mark_state_partially_synced(info) == [info EXCEPT !.state_sync = "Partial"]

mark_members_missing(info) == [info EXCEPT !.members_sync = "Missing"]

\* Members that a sync marked missing stay missing.
mark_members_synced_unless_missing(info) ==
    IF info.members_sync = "Missing" THEN info ELSE [info EXCEPT !.members_sync = "Synced"]

mark_members_synced(info) == [info EXCEPT !.members_sync = "Synced"]

set_prev_batch(info, prev_batch) == [info EXCEPT !.prev_batch = prev_batch]

\* The room summary of a sync response: no member counts, or the number of
\* joined and invited members together.
NoSummary == [some |-> FALSE, active_members |-> 0]

Summary(active_members) == [some |-> TRUE, active_members |-> active_members]

\* RoomInfo::update_from_ruma_summary, as far as active_members_count() shows it.
update_from_ruma_summary(info, summary) ==
    IF summary.some THEN [info EXCEPT !.active_members_count = summary.active_members]
    ELSE info

\* requested: m.room.encryption is among the requested required states.
handle_encryption_state(info, requested) ==
    IF requested THEN [info EXCEPT !.encryption_state_synced = TRUE] ELSE info

\* RoomInfo::handle_state_event / handle_stripped_state_event: the room summary
\* follows the state events it knows; membership events never touch `state`.
handle_state_event(info, ev) ==
    CASE ev.type = "m.room.encryption" -> [info EXCEPT !.encryption = TRUE]
      [] ev.type = "m.room.history_visibility" -> [info EXCEPT !.history_visibility = ev.value]
      [] OTHER -> info

\* Room::encryption_state().is_encrypted() / Room::encryption_settings().is_some()
is_encrypted(info) == info.encryption

(***************************************************************************)
(* StateChanges and the state store.                                       *)
(***************************************************************************)
NoAccountData == [present |-> FALSE, valid |-> FALSE, users |-> {}]

\* The m.push_rules global account data event: absent, malformed, or a Ruleset.
NoPushRules == [present |-> FALSE, valid |-> FALSE, global |-> ""]

PushRulesEvent(global) == [present |-> TRUE, valid |-> TRUE, global |-> global]

InvalidPushRules == [present |-> TRUE, valid |-> FALSE, global |-> ""]

NewStateChanges(token) ==
    [sync_token |-> token, room_infos |-> EmptyMap, state |-> EmptyMap,
     stripped_state |-> EmptyMap, profiles |-> EmptyMap, profiles_to_delete |-> EmptyMap,
     ignored_user_list |-> NoAccountData, push_rules |-> NoPushRules,
     room_account_data |-> EmptyMap, ambiguity_maps |-> EmptyMap]

add_room(changes, room_id, info) ==
    [changes EXCEPT !.room_infos = Put(@, room_id, info)]

\* changes.state.entry(room).or_default().entry(type).or_default().insert(key, raw)
add_state_event(changes, room_id, ev) ==
    [changes EXCEPT !.state =
        Put(@, room_id, Put(GetOr(@, room_id, EmptyMap), StateKeyOf(ev), ev))]

EmptyStore ==
    [sync_token |-> NoToken, room_infos |-> EmptyMap, state |-> EmptyMap,
     stripped_state |-> EmptyMap, profiles |-> EmptyMap,
     ignored_user_list |-> NoAccountData, push_rules |-> NoPushRules,
     room_account_data |-> EmptyMap, ambiguity_maps |-> EmptyMap]

\* StateStore::save_changes, all or nothing.
save_changes(st, changes) ==
    [sync_token |-> IF changes.sync_token # NoToken THEN changes.sync_token ELSE st.sync_token,
     room_infos |-> Merge(st.room_infos, changes.room_infos),
     state |-> [r \in (DOMAIN st.state) \cup (DOMAIN changes.state) |->
                  Merge(GetOr(st.state, r, EmptyMap), GetOr(changes.state, r, EmptyMap))],
     stripped_state |->
        [r \in ((DOMAIN st.stripped_state) \ (DOMAIN changes.state))
                 \cup (DOMAIN changes.stripped_state) |->
            IF r \in DOMAIN changes.stripped_state
            THEN Merge(IF r \in DOMAIN changes.state THEN EmptyMap
                       ELSE GetOr(st.stripped_state, r, EmptyMap),
                       changes.stripped_state[r])
            ELSE st.stripped_state[r]],
     profiles |->
        [r \in (DOMAIN st.profiles) \cup (DOMAIN changes.profiles) |->
            LET kept == GetOr(st.profiles, r, EmptyMap)
                gone == GetOr(changes.profiles_to_delete, r, {})
                left == [u \in (DOMAIN kept) \ gone |-> kept[u]]
            IN  Merge(left, GetOr(changes.profiles, r, EmptyMap))],
     ignored_user_list |-> IF changes.ignored_user_list.present
                           THEN changes.ignored_user_list ELSE st.ignored_user_list,
     push_rules |-> IF changes.push_rules.present THEN changes.push_rules ELSE st.push_rules,
     room_account_data |->
        [r \in (DOMAIN st.room_account_data) \cup (DOMAIN changes.room_account_data) |->
            Merge(GetOr(st.room_account_data, r, EmptyMap),
                  GetOr(changes.room_account_data, r, EmptyMap))],
     ambiguity_maps |->
        [r \in (DOMAIN st.ambiguity_maps) \cup (DOMAIN changes.ambiguity_maps) |->
            LET saved == Merge(GetOr(st.ambiguity_maps, r, EmptyMap),
                               GetOr(changes.ambiguity_maps, r, EmptyMap))
            IN  [d \in {x \in DOMAIN saved : saved[x] # {}} |-> saved[d]]]]

\* RoomMemberships filters.
Memberships(filter) == IF filter = "JOIN" THEN {"join"} ELSE {"join", "invite"}

\* StateStore::get_user_ids(room_id, memberships)
get_user_ids(st, room_id, filter) ==
    LET events == GetOr(st.state, room_id, EmptyMap)
    IN  {k[2] : k \in {x \in DOMAIN events :
                          /\ x[1] = "m.room.member"
                          /\ events[x].membership \in Memberships(filter)}}

\* StateStore::remove_room
remove_room(st, room_id) ==
    [st EXCEPT !.room_infos = Remove(@, room_id),
               !.state = Remove(@, room_id),
               !.stripped_state = Remove(@, room_id),
               !.profiles = Remove(@, room_id),
               !.ambiguity_maps = Remove(@, room_id)]

(***************************************************************************)
(* One entry of `trace`.                                                   *)
(***************************************************************************)
T(k, room, users, what) == [k |-> k, room |-> room, users |-> users, what |-> what]

NoCall == [op |-> "none", room |-> "", next_batch |-> "", input |-> "", requested |-> FALSE,
           env |-> ""]

\* Timeline.events of the JoinedRoomUpdate and of the LeftRoomUpdate of each room.
NoTimelines == [join |-> EmptyMap, leave |-> EmptyMap]

NoResponse ==
    [join |-> {}, leave |-> {}, invite |-> {}, knocked |-> {}, account_data |-> FALSE,
     timeline |-> NoTimelines, notifications |-> EmptyMap]

Result(status, response) == [status |-> status, response |-> response]

\* A Room belongs to the logged-in user: the host hands room data to an
\* activated client only.
LoggedIn == session_meta # NoSession

\* BaseClient::is_active
is_active(s) == s.session_meta # NoSession

\* The tasks that call the client side by side; a task that is not inside a
\* call is idle.
TaskIds == {"a", "b"}

Idle == [pc |-> "idle"]

\* A panic ends the run of the client.
Running == ret.status # "Panic" /\ nops < MaxOps

(***************************************************************************)
(* The client's state as one record, and the step that installs a new one. *)
(***************************************************************************)
Cur ==
    [session_meta |-> session_meta, olm_machine |-> olm_machine, sync_token |-> sync_token,
     rooms |-> rooms, store |-> store, event_cache_store |-> event_cache_store,
     tracked_users |-> tracked_users, ignore_user_list_changes |-> ignore_user_list_changes,
     ret |-> Result("none", NoResponse), trace |-> << >>]

Install(c, out) ==
    /\ session_meta' = out.session_meta
    /\ olm_machine' = out.olm_machine
    /\ sync_token' = out.sync_token
    /\ rooms' = out.rooms
    /\ store' = out.store
    /\ event_cache_store' = out.event_cache_store
    /\ tracked_users' = out.tracked_users
    /\ ignore_user_list_changes' = out.ignore_user_list_changes
    /\ ret' = out.ret
    /\ trace' = out.trace
    /\ call' = c
    /\ nops' = nops + 1
    /\ UNCHANGED << sync_lock, tasks >>

\* BaseStateStore::get_or_create_room: a Room that is not known yet is created in
\* memory with a fresh RoomInfo in the given state.
get_or_create_room(known, room_id, room_state) ==
    IF room_id \in DOMAIN known THEN known
    ELSE Put(known, room_id, NewRoomInfo(room_state))

(***************************************************************************)
(* activate                                                                *)
(***************************************************************************)
\* state_store.load_rooms: every persisted RoomInfo is restored into a Room.
load_rooms(s) == [s EXCEPT !.rooms = Merge(@, s.store.room_infos),
                           !.trace = Append(@, T("store_read", "", {}, "load_rooms"))]

\* state_store.load_sync_token
load_sync_token(s) == [s EXCEPT !.sync_token = s.store.sync_token,
                                !.trace = Append(@, T("store_read", "", {}, "load_sync_token"))]

\* regenerate_olm
regenerate_olm(s, outcome) ==
    IF s.session_meta = NoSession
    THEN [s EXCEPT !.ret = Result("OlmMissingSession", NoResponse)]
    ELSE IF outcome = "olm_error"
    THEN [s EXCEPT !.ret = Result("OlmError", NoResponse)]
    ELSE [s EXCEPT !.olm_machine = TRUE, !.ret = Result("Ok", NoResponse)]

\* An activation that replaces the session of an active client.
activate_replacing_session(s, user, outcome) ==
    IF outcome = "load_rooms_error"
    THEN [s EXCEPT !.ret = Result("StoreError", NoResponse),
                   !.trace = Append(@, T("store_read", "", {}, "load_rooms"))]
    ELSE LET s1 == load_rooms(s) IN
    IF outcome = "load_sync_token_error"
    THEN [s1 EXCEPT !.ret = Result("StoreError", NoResponse),
                    !.trace = Append(@, T("store_read", "", {}, "load_sync_token"))]
    ELSE regenerate_olm([load_sync_token(s1) EXCEPT !.session_meta = user], outcome)

\* An activation that sets the session before it loads anything.
activate_session_first(s, user, outcome) ==
    IF s.session_meta # NoSession
    THEN [s EXCEPT !.ret = Result("Panic", NoResponse)]
    ELSE LET s0 == [s EXCEPT !.session_meta = user] IN
    IF outcome = "load_rooms_error"
    THEN [s0 EXCEPT !.ret = Result("StoreError", NoResponse),
                    !.trace = Append(@, T("store_read", "", {}, "load_rooms"))]
    ELSE LET s1 == load_rooms(s0) IN
    IF outcome = "load_sync_token_error"
    THEN [s1 EXCEPT !.ret = Result("StoreError", NoResponse),
                    !.trace = Append(@, T("store_read", "", {}, "load_sync_token"))]
    ELSE regenerate_olm(load_sync_token(s1), outcome)

activate(s, user, outcome) ==
    IF outcome = "load_rooms_error"
    THEN [s EXCEPT !.ret = Result("StoreError", NoResponse),
                   !.trace = Append(@, T("store_read", "", {}, "load_rooms"))]
    ELSE LET s1 == load_rooms(s) IN
    IF outcome = "load_sync_token_error"
    THEN [s1 EXCEPT !.ret = Result("StoreError", NoResponse),
                    !.trace = Append(@, T("store_read", "", {}, "load_sync_token"))]
    ELSE LET s2 == load_sync_token(s1) IN
    IF s2.session_meta # NoSession
    THEN [s2 EXCEPT !.ret = Result("Panic", NoResponse)]
    ELSE regenerate_olm([s2 EXCEPT !.session_meta = user], outcome)

ActivateOutcomes == {"ok", "load_rooms_error", "load_sync_token_error", "olm_error"}

\* The first session is Alice's; an active client is asked to activate again
\* with either user.
ActivateUsers == IF session_meta = NoSession THEN {Alice} ELSE Users

Activate ==
    /\ Running
    /\ \E user \in ActivateUsers, outcome \in ActivateOutcomes :
          Install([NoCall EXCEPT !.op = "activate", !.input = user, !.env = outcome],
                  activate(Cur, user, outcome))

(***************************************************************************)
(* The AmbiguityCache of a sync: for each room, the users of each display  *)
(* name, read from the changes first and from the store otherwise.         *)
(***************************************************************************)
get_users_with_display_name(st, changes, room_id, display_name) ==
    LET cached == GetOr(changes.ambiguity_maps, room_id, EmptyMap)
        stored == GetOr(st.ambiguity_maps, room_id, EmptyMap)
    IN  IF display_name \in DOMAIN cached THEN cached[display_name]
        ELSE IF display_name \in DOMAIN stored THEN stored[display_name]
        ELSE {}

\* AmbiguityCache::handle_event: the user leaves the bucket they are in, and
\* joins the bucket of the event's display name if the event makes them a
\* joined or invited member with a name.
ambiguity_handle_event(st, changes, room_id, member) ==
    LET cached == GetOr(changes.ambiguity_maps, room_id, EmptyMap)
        stored == GetOr(st.ambiguity_maps, room_id, EmptyMap)
        named == member.membership \in {"join", "invite"} /\ member.displayname # ""
        old == {d \in (DOMAIN cached) \cup (DOMAIN stored) :
                   member.state_key \in get_users_with_display_name(st, changes, room_id, d)}
        touched == old \cup (IF named THEN {member.displayname} ELSE {})
    IN  [changes EXCEPT !.ambiguity_maps =
            Put(@, room_id,
                Merge(cached,
                      [d \in touched |->
                          (get_users_with_display_name(st, changes, room_id, d)
                               \ {member.state_key})
                              \cup (IF named /\ d = member.displayname
                                    THEN {member.state_key} ELSE {})]))]

(***************************************************************************)
(* Member profiles.                                                        *)
(***************************************************************************)
\* Profiles filed under the state key, whoever sent the event.
handle_room_member_event_for_profiles_of_anyone(room_id, ev, changes) ==
    LET c1 == [changes EXCEPT !.profiles =
                  Put(@, room_id, Put(GetOr(@, room_id, EmptyMap), ev.state_key, ev))]
    IN  IF ev.membership = "invite"
        THEN [c1 EXCEPT !.profiles_to_delete =
                  Put(@, room_id, GetOr(@, room_id, {}) \cup {ev.state_key})]
        ELSE c1

\* Profiles that survive an invitation.
handle_room_member_event_for_profiles_keeping(room_id, ev, changes) ==
    IF ev.state_key = ev.sender
    THEN [changes EXCEPT !.profiles =
              Put(@, room_id, Put(GetOr(@, room_id, EmptyMap), ev.sender, ev))]
    ELSE changes

handle_room_member_event_for_profiles(room_id, ev, changes) ==
    LET c1 == IF ev.state_key = ev.sender
              THEN [changes EXCEPT !.profiles =
                        Put(@, room_id, Put(GetOr(@, room_id, EmptyMap), ev.sender, ev))]
              ELSE changes
    IN  IF ev.membership = "invite"
        THEN [c1 EXCEPT !.profiles_to_delete =
                  Put(@, room_id, GetOr(@, room_id, {}) \cup {ev.state_key})]
        ELSE c1

(***************************************************************************)
(* handle_state, handle_timeline, handle_invited_state.  Each works on     *)
(* [room_info, changes, user_ids] and returns the same record.             *)
(***************************************************************************)
RECURSIVE handle_state_from(_, _, _, _, _, _)
handle_state_from(st, events, i, room_id, acc, state_events) ==
    IF i > Len(events)
    THEN [acc EXCEPT !.changes.state = Put(@, room_id, state_events)]
    ELSE LET ev == events[i]
             member == ev.type = "m.room.member"
         IN  handle_state_from(st, events, i + 1, room_id,
                [room_info |-> handle_state_event(acc.room_info, ev),
                 changes |-> IF member
                             THEN handle_room_member_event_for_profiles(
                                      room_id, ev,
                                      ambiguity_handle_event(st, acc.changes, room_id, ev))
                             ELSE acc.changes,
                 user_ids |-> IF member /\ ev.membership \in {"join", "invite"}
                              THEN acc.user_ids \cup {ev.state_key}
                              ELSE acc.user_ids],
                Put(state_events, StateKeyOf(ev), ev))

handle_state(st, events, room_info, changes, room_id) ==
    handle_state_from(st, events, 1, room_id,
                      [room_info |-> room_info, changes |-> changes, user_ids |-> {}],
                      EmptyMap)

(***************************************************************************)
(* Push rules and the push context of a room.                              *)
(***************************************************************************)
\* Ruleset::new()
EmptyRuleset == [kind |-> "empty", id |-> ""]

\* Ruleset::server_default(user_id)
ServerDefault(user_id) == [kind |-> "server_default", id |-> user_id]

\* The `global` Ruleset of an m.push_rules event.
GlobalRuleset(event) == [kind |-> "global", id |-> event.global]

\* Option<T>::and_then(deserialize().ok())
Usable(event) == event.present /\ event.valid

\* A lookup that asks the store before it looks at the response.
get_push_rules_store_first(s, response) ==
    IF Usable(s.store.push_rules) THEN GlobalRuleset(s.store.push_rules)
    ELSE IF Usable(response.push_rules) THEN GlobalRuleset(response.push_rules)
    ELSE IF s.session_meta # NoSession THEN ServerDefault(s.session_meta)
    ELSE EmptyRuleset

\* get_push_rules, once the store has answered.
get_push_rules(s, response) ==
    IF Usable(response.push_rules) THEN GlobalRuleset(response.push_rules)
    ELSE IF Usable(s.store.push_rules) THEN GlobalRuleset(s.store.push_rules)
    ELSE IF s.session_meta # NoSession THEN ServerDefault(s.session_meta)
    ELSE EmptyRuleset

\* The localpart of a user id.
LocalPart(user_id) == IF user_id = Alice THEN "alice" ELSE "bob"

\* content.displayname, or the localpart of the user when there is none.
DisplayNameOf(member) ==
    IF member.displayname = "" THEN LocalPart(member.state_key) ELSE member.displayname

\* Room::get_member(own user): the member event the store holds.
get_member(st, room_id, user_id) ==
    LET events == GetOr(st.state, room_id, EmptyMap)
    IN  IF << "m.room.member", user_id >> \in DOMAIN events
        THEN [some |-> TRUE, name |-> DisplayNameOf(events[<< "m.room.member", user_id >>])]
        ELSE [some |-> FALSE, name |-> ""]

NoPushContext ==
    [some |-> FALSE, user_display_name |-> "", member_count |-> 0, power_levels |-> "none"]

\* The (type, state key) pair of the room's m.room.power_levels event.
PowerLevelsKey == << "m.room.power_levels", "" >>

\* The power levels of get_push_room_context: those of changes.state, else
\* those of changes.stripped_state, else those the store holds, else None.
push_power_levels(s, room_id, changes) ==
    LET state == GetOr(changes.state, room_id, EmptyMap)
        stripped == GetOr(changes.stripped_state, room_id, EmptyMap)
        stored == GetOr(s.store.state, room_id, EmptyMap)
    IN  IF PowerLevelsKey \in DOMAIN state THEN state[PowerLevelsKey].value
        ELSE IF PowerLevelsKey \in DOMAIN stripped THEN stripped[PowerLevelsKey].value
        ELSE IF PowerLevelsKey \in DOMAIN stored THEN stored[PowerLevelsKey].value
        ELSE "none"

\* get_push_room_context: None when the own member is found neither in
\* changes.state, nor in changes.stripped_state, nor in the store.
get_push_room_context(s, room_id, room_info, changes) ==
    LET own == << "m.room.member", s.session_meta >>
        state == GetOr(changes.state, room_id, EmptyMap)
        stripped == GetOr(changes.stripped_state, room_id, EmptyMap)
        member == get_member(s.store, room_id, s.session_meta)
        found == [some |-> TRUE, user_display_name |-> "",
                  member_count |-> room_info.active_members_count,
                  power_levels |-> push_power_levels(s, room_id, changes)]
    IN  IF own \in DOMAIN state
        THEN [found EXCEPT !.user_display_name = DisplayNameOf(state[own])]
        ELSE IF own \in DOMAIN stripped
        THEN [found EXCEPT !.user_display_name = DisplayNameOf(stripped[own])]
        ELSE IF member.some
        THEN [found EXCEPT !.user_display_name = member.name]
        ELSE NoPushContext

\* A context that is never brought up to date once it exists.
update_push_room_context_never(s, push_context, room_id, room_info, changes) == push_context

\* update_push_room_context: the member count, and the own display name and
\* the power levels if changes.state holds the events.
update_push_room_context(s, push_context, room_id, room_info, changes) ==
    LET own == << "m.room.member", s.session_meta >>
        state == GetOr(changes.state, room_id, EmptyMap)
    IN  [push_context EXCEPT
            !.member_count = room_info.active_members_count,
            !.user_display_name = IF own \in DOMAIN state THEN DisplayNameOf(state[own])
                                  ELSE @,
            !.power_levels = IF PowerLevelsKey \in DOMAIN state
                             THEN state[PowerLevelsKey].value ELSE @]

(***************************************************************************)
(* Timeline events.                                                        *)
(***************************************************************************)
NoActions ==
    [some |-> FALSE, ruleset |-> EmptyRuleset, user_display_name |-> "", member_count |-> 0,
     power_levels |-> "none", notify |-> FALSE]

\* Whether the Ruleset has a rule with a notify action that matches the
\* event: an empty Ruleset and the global Ruleset "silent" have none; the
\* others notify for a message, for an encrypted event, and for the
\* invitation of the user the context is of.
matches_notify_rule(push_rules, raw, own_user_id) ==
    /\ push_rules.kind # "empty"
    /\ push_rules.id # "silent"
    /\ \/ raw.type \in {"m.room.message", "m.room.encrypted"}
       \/ raw.type = "m.room.member" /\ raw.membership = "invite"
              /\ raw.state_key = own_user_id

\* A Ruleset whose rules never see the event.
get_actions_never_notifying(s, raw, push_context) ==
    [some |-> TRUE, ruleset |-> s.push_rules,
     user_display_name |-> push_context.user_display_name,
     member_count |-> push_context.member_count,
     power_levels |-> push_context.power_levels, notify |-> FALSE]

\* push_rules.get_actions(raw, push_context): the actions stand for the
\* Ruleset and the context they were computed from; `notify` is what
\* Action::should_notify finds among them.
get_actions(s, raw, push_context) ==
    [some |-> TRUE, ruleset |-> s.push_rules,
     user_display_name |-> push_context.user_display_name,
     member_count |-> push_context.member_count,
     power_levels |-> push_context.power_levels,
     notify |-> matches_notify_rule(s.push_rules, raw, s.session_meta)]

\* Notification { actions, event }: `kind` is Sync or Stripped.
Notification(kind, raw, actions) == [kind |-> kind, event |-> raw, actions |-> actions]

\* TimelineEvent::new(raw)
NewTimelineEvent(raw) ==
    [kind |-> "PlainText", raw |-> raw, utd_info |-> "", push_actions |-> NoActions]

\* TimelineEvent::new_utd_event(raw, utd_info)
new_utd_event(raw, utd_info) ==
    [kind |-> "UnableToDecrypt", raw |-> raw, utd_info |-> utd_info,
     push_actions |-> NoActions]

\* The TimelineEvent of a decrypted room event.
DecryptedEvent(raw) ==
    [kind |-> "Decrypted", raw |-> Plaintext(raw), utd_info |-> "", push_actions |-> NoActions]

\* A decryption that reports an undecryptable event as an error.
decrypt_sync_room_event_strict(s, raw) ==
    IF ~s.olm_machine THEN [status |-> "Ok", some |-> FALSE, event |-> NewTimelineEvent(raw)]
    ELSE CASE Decrypts(raw) ->
                 [status |-> "Ok", some |-> TRUE, event |-> DecryptedEvent(raw)]
           [] OTHER ->
                 [status |-> "CryptoStoreError", some |-> FALSE, event |-> NewTimelineEvent(raw)]

\* decrypt_sync_room_event: Ok(None) without an OlmMachine, Ok(Some(event)) for
\* a decrypted or an undecryptable event, Err when try_decrypt_room_event fails.
decrypt_sync_room_event(s, raw) ==
    IF ~s.olm_machine THEN [status |-> "Ok", some |-> FALSE, event |-> NewTimelineEvent(raw)]
    ELSE CASE Decrypts(raw) ->
                 [status |-> "Ok", some |-> TRUE, event |-> DecryptedEvent(raw)]
           [] raw.value = "utd" ->
                 [status |-> "Ok", some |-> TRUE,
                  event |-> new_utd_event(raw, "MissingMegolmSession")]
           [] OTHER ->
                 [status |-> "CryptoStoreError", some |-> FALSE, event |-> NewTimelineEvent(raw)]

\* A Notification for every event that has actions.
push_notification_always(notifications, raw, actions) ==
    Append(notifications, Notification("Sync", raw, actions))

\* if actions.iter().any(Action::should_notify) { notifications.push(..) }
push_notification(notifications, raw, actions) ==
    IF actions.notify THEN Append(notifications, Notification("Sync", raw, actions))
    ELSE notifications

\* The push context after an event was handled, and the event with its actions.
WithPushActions(s, room_id, acc, event) ==
    The({[acc EXCEPT !.push_context = push_context,
                     !.notifications =
                         IF push_context.some
                         THEN push_notification(@, event.raw,
                                                get_actions(s, event.raw, push_context))
                         ELSE @,
                     !.timeline = Append(@,
                         IF push_context.some
                         THEN [event EXCEPT
                                  !.push_actions = get_actions(s, event.raw, push_context)]
                         ELSE event)] :
            push_context \in
                {IF acc.push_context.some
                 THEN update_push_room_context(s, acc.push_context, room_id, acc.room_info,
                                               acc.changes)
                 ELSE get_push_room_context(s, room_id, acc.room_info, acc.changes)}})

\* A loop that leaves out the events that fail to deserialize.
skip_undeserialized(acc, raw) == acc

\* Err(e) of raw.deserialize(): a warning, and the wrapper is pushed as it is.
push_undeserialized(acc, raw) == [acc EXCEPT !.timeline = Append(@, NewTimelineEvent(raw))]

\* One round of the loop of handle_timeline, for an event that deserializes.
timeline_step(s, room_id, acc, ev) ==
    IF ev.type = "m.room.member"
    THEN WithPushActions(s, room_id,
            [acc EXCEPT
                !.changes = add_state_event(
                                handle_room_member_event_for_profiles(
                                    room_id, ev,
                                    ambiguity_handle_event(s.store, @, room_id, ev)),
                                room_id, ev),
                !.user_ids = IF ev.membership \in {"join", "invite"}
                             THEN @ \cup {ev.state_key}
                             ELSE @ \ {ev.state_key}],
            NewTimelineEvent(ev))
    ELSE IF IsStateEvent(ev)
    THEN WithPushActions(s, room_id,
            [acc EXCEPT !.room_info = handle_state_event(@, ev),
                        !.changes = add_state_event(@, room_id, ev)],
            NewTimelineEvent(ev))
    ELSE IF ev.type = "m.room.encrypted"
    THEN LET d == decrypt_sync_room_event(s, ev)
             tried == IF s.olm_machine
                      THEN [acc EXCEPT !.trace = Append(@,
                               T("crypto", room_id, {}, "try_decrypt_room_event"))]
                      ELSE acc
         IN  IF d.status # "Ok" THEN [tried EXCEPT !.status = d.status]
             ELSE WithPushActions(s, room_id, tried, d.event)
    ELSE WithPushActions(s, room_id, acc, NewTimelineEvent(ev))

\* The loop of handle_timeline.  Every raw event ends as one TimelineEvent of
\* acc.timeline, unless the decryption of an event fails with an error, which
\* ends the loop.
RECURSIVE handle_timeline_from(_, _, _, _, _)
handle_timeline_from(s, events, i, room_id, acc) ==
    IF i > Len(events) \/ acc.status # "Ok" THEN acc
    ELSE The({handle_timeline_from(s, events, i + 1, room_id, next) :
                next \in {IF Deserializes(events[i])
                          THEN timeline_step(s, room_id, acc, events[i])
                          ELSE push_undeserialized(acc, events[i])}})

\* handle_timeline.  `s` gives the OlmMachine, the own user, the store and the
\* Ruleset of the sync; the result carries the Timeline and the calls made.
handle_timeline(s, room_id, events, user_ids, room_info, changes) ==
    handle_timeline_from(s, events, 1, room_id,
        [room_info |-> room_info, changes |-> changes, user_ids |-> user_ids,
         timeline |-> << >>,
         push_context |-> get_push_room_context(s, room_id, room_info, changes),
         notifications |-> GetOr(s.notifications, room_id, << >>),
         status |-> "Ok", trace |-> s.trace])

\* The first loop of handle_invited_state and the insert into
\* changes.stripped_state that follows it.
RECURSIVE handle_invited_state_from(_, _, _, _, _)
handle_invited_state_from(events, i, room_id, acc, state_events) ==
    IF i > Len(events)
    THEN [acc EXCEPT !.changes.stripped_state = Put(@, room_id, state_events)]
    ELSE handle_invited_state_from(events, i + 1, room_id,
            [acc EXCEPT !.room_info = handle_state_event(@, events[i])],
            Put(state_events, StateKeyOf(events[i]), events[i]))

\* The keys of a map of state events, in the order the map is walked: by
\* event type, then by state key.
StateKeyOrder ==
    << << "m.room.encryption", "" >>, << "m.room.history_visibility", "" >>,
       << "m.room.member", Alice >>, << "m.room.member", Bob >>,
       << "m.room.name", "" >>, << "m.room.power_levels", "" >> >>

\* The second loop of handle_invited_state: a Notification for every event
\* of state_events whose actions notify.
RECURSIVE stripped_notifications(_, _, _, _, _)
stripped_notifications(s, state_events, i, push_context, notifications) ==
    IF i > Len(StateKeyOrder) THEN notifications
    ELSE stripped_notifications(s, state_events, i + 1, push_context,
            IF /\ StateKeyOrder[i] \in DOMAIN state_events
               /\ get_actions(s, state_events[StateKeyOrder[i]], push_context).notify
            THEN Append(notifications,
                        Notification("Stripped", state_events[StateKeyOrder[i]],
                                     get_actions(s, state_events[StateKeyOrder[i]],
                                                 push_context)))
            ELSE notifications)

\* A handle_invited_state that looks for notifications while it folds: after
\* each event, with the push context of the events folded up to it.
RECURSIVE handle_invited_state_notifying_early(_, _, _, _, _, _)
handle_invited_state_notifying_early(s, events, i, room_id, acc, state_events) ==
    IF i > Len(events)
    THEN [acc EXCEPT !.changes.stripped_state = Put(@, room_id, state_events)]
    ELSE The({The({handle_invited_state_notifying_early(s, events, i + 1, room_id,
                [acc EXCEPT
                    !.room_info = handle_state_event(@, events[i]),
                    !.notifications =
                        IF push_context.some
                        THEN stripped_notifications(
                                 s, [k \in {StateKeyOf(events[i])} |-> events[i]], 1,
                                 push_context, @)
                        ELSE @],
                folded) :
              push_context \in {get_push_room_context(
                                    s, room_id, handle_state_event(acc.room_info, events[i]),
                                    [acc.changes EXCEPT
                                        !.stripped_state = Put(@, room_id, folded)])}}) :
              folded \in {Put(state_events, StateKeyOf(events[i]), events[i])}})

handle_invited_state_eagerly(s, room_id, events, room_info, changes) ==
    handle_invited_state_notifying_early(s, events, 1, room_id,
        [room_info |-> room_info, changes |-> changes, user_ids |-> {},
         notifications |-> GetOr(s.notifications, room_id, << >>)],
        EmptyMap)

\* handle_invited_state: every event is folded into the RoomInfo and filed in
\* changes.stripped_state; then the push context is looked up once, and the
\* events filed are checked for notifications.
handle_invited_state(s, room_id, events, room_info, changes) ==
    The({The({[folded EXCEPT
                 !.notifications =
                     IF push_context.some
                     THEN stripped_notifications(s, folded.changes.stripped_state[room_id],
                                                 1, push_context, @)
                     ELSE @] :
              push_context \in {get_push_room_context(s, room_id, folded.room_info,
                                                      folded.changes)}}) :
         folded \in {handle_invited_state_from(
                        events, 1, room_id,
                        [room_info |-> room_info, changes |-> changes, user_ids |-> {},
                         notifications |-> GetOr(s.notifications, room_id, << >>)],
                        EmptyMap)}})

(***************************************************************************)
(* The RoomInfo each bucket of a sync response starts from.                *)
(***************************************************************************)
JoinedRoomInfo(info, new_info, requested) ==
    handle_encryption_state(
        mark_state_fully_synced(
            set_prev_batch(update_from_ruma_summary(mark_as(info, "Joined"), new_info.summary),
                           new_info.prev_batch)),
        requested)

\* A leave bucket that leaves the state of the room as it finds it.
LeftRoomInfoKeepsState(info, requested) == handle_encryption_state(info, requested)

LeftRoomInfo(info, requested) ==
    handle_encryption_state(mark_state_partially_synced(mark_as(info, "Left")), requested)

\* An invite bucket that takes a room it finds Invited for partially synced.
InvitedRoomInfoFirstTimeOnly(info) ==
    IF info.state = "Invited" THEN mark_state_partially_synced(info)
    ELSE mark_state_fully_synced(mark_as(info, "Invited"))

InvitedRoomInfo(info) == mark_state_fully_synced(mark_as(info, "Invited"))

KnockedRoomInfo(info) == mark_state_fully_synced(mark_as(info, "Knocked"))

\* OlmMachine::update_tracked_users
update_tracked_users(s, room_id, users) ==
    [s EXCEPT !.tracked_users = @ \cup users,
              !.trace = Append(@, T("crypto", room_id, users, "update_tracked_users"))]

\* Tracking that passes the users of the batch only.
TrackJoinedRoomBatchOnly(s, room_id, room_info, user_ids) ==
    IF is_encrypted(room_info) /\ s.olm_machine
    THEN update_tracked_users(s, room_id, user_ids)
    ELSE s

\* The tracking calls made for a joined room whose new RoomInfo is encrypted.
TrackJoinedRoom(s, room_id, room_info, user_ids) ==
    IF is_encrypted(room_info) /\ s.olm_machine
    THEN LET s1 == IF ~is_encrypted(s.rooms[room_id])
                   THEN update_tracked_users(
                            [s EXCEPT !.trace =
                                Append(@, T("store_read", room_id, {}, "ACTIVE"))],
                            room_id, get_user_ids(s.store, room_id, "ACTIVE"))
                   ELSE s
         IN  update_tracked_users(s1, room_id, user_ids)
    ELSE s

(***************************************************************************)
(* Room account data.  An event has a type and, for the unread marker,     *)
(* the `unread` flag of its content.                                       *)
(***************************************************************************)
RoomAccountDataEvent(type, unread) == [type |-> type, unread |-> unread]

\* The unread marker under its stable and its unstable event type.
MarkedUnread(unread) == RoomAccountDataEvent("m.marked_unread", unread)

UnstableMarkedUnread(unread) == RoomAccountDataEvent("com.famedly.marked_unread", unread)

\* changes.add_room_account_data(room_id, event, raw)
add_room_account_data(changes, room_id, ev) ==
    [changes EXCEPT !.room_account_data =
        Put(@, room_id, Put(GetOr(@, room_id, EmptyMap), ev.type, ev))]

\* An unread marker that is stored without a reason being recorded.
on_unread_marker_silent(room_id, unread, room_info, room_info_notable_updates) ==
    [room_info |-> [room_info EXCEPT !.is_marked_unread = unread],
     room_info_notable_updates |-> room_info_notable_updates]

\* on_unread_marker
on_unread_marker(room_id, unread, room_info, room_info_notable_updates) ==
    [room_info |-> [room_info EXCEPT !.is_marked_unread = unread],
     room_info_notable_updates |->
        IF room_info.is_marked_unread # unread
        THEN Put(room_info_notable_updates, room_id,
                 GetOr(room_info_notable_updates, room_id, {}) \cup {"UNREAD_MARKER"})
        ELSE room_info_notable_updates]

\* on_room_info with the on_unread_marker closure: the RoomInfo of the changes
\* is preferred, then a clone of the Room's, which is added to the changes;
\* without either nothing happens.
on_room_info(s, room_id, unread, acc) ==
    IF room_id \in DOMAIN acc.changes.room_infos \/ room_id \in DOMAIN s.rooms
    THEN LET room_info == IF room_id \in DOMAIN acc.changes.room_infos
                          THEN acc.changes.room_infos[room_id] ELSE s.rooms[room_id]
             marked == on_unread_marker(room_id, unread, room_info,
                                        acc.room_info_notable_updates)
         IN  [changes |-> add_room(acc.changes, room_id, marked.room_info),
              room_info_notable_updates |-> marked.room_info_notable_updates]
    ELSE acc

\* handle_room_account_data from event i on.  An event that does not
\* deserialize is skipped; every other one is recorded in the changes.
RECURSIVE handle_room_account_data_from(_, _, _, _, _)
handle_room_account_data_from(s, room_id, events, i, acc) ==
    IF i > Len(events) THEN acc
    ELSE LET ev == events[i]
             recorded == [acc EXCEPT !.changes = add_room_account_data(@, room_id, ev)]
         IN  handle_room_account_data_from(s, room_id, events, i + 1,
                 IF ev.type = "invalid" THEN acc
                 ELSE IF ev.type \in {"m.marked_unread", "com.famedly.marked_unread"}
                 THEN on_room_info(s, room_id, ev.unread, recorded)
                 ELSE recorded)

handle_room_account_data(s, room_id, events, changes, room_info_notable_updates) ==
    handle_room_account_data_from(s, room_id, events, 1,
        [changes |-> changes, room_info_notable_updates |-> room_info_notable_updates])

(***************************************************************************)
(* The per-room steps of receive_sync_response.  `s` is the client state   *)
(* extended with the call's locals: changes, updated_members_in_room.      *)
(***************************************************************************)
\* A join bucket after handle_timeline: an error ends the sync, otherwise the
\* RoomInfo is recorded, the users are tracked, and the Timeline is kept for
\* the JoinedRoomUpdate.
\* The user_ids as handle_timeline left them.
updated_members_after_timeline(hs, ht) == ht.user_ids

\* updated_members_in_room.insert(room_id, user_ids.clone()), right after
\* handle_state.
updated_members(hs, ht) == hs.user_ids

joined_room_after_timeline(s0, room_id, account_data, hs, ht) ==
    LET changes1 == handle_room_account_data(
                        s0, room_id, account_data,
                        add_room(ht.changes, room_id, ht.room_info), EmptyMap).changes
        room_info == changes1.room_infos[room_id]
        s1 == TrackJoinedRoom(
                  [s0 EXCEPT !.changes = changes1, !.trace = ht.trace,
                             !.notifications = IF ht.notifications = << >> THEN @
                                               ELSE Put(@, room_id, ht.notifications),
                             !.timelines.join = Put(@, room_id, ht.timeline),
                             !.updated_members_in_room =
                                 Put(@, room_id, updated_members(hs, ht))],
                  room_id, room_info, ht.user_ids)
    IN  IF ht.status # "Ok"
        THEN [s0 EXCEPT !.trace = ht.trace, !.ret = Result(ht.status, NoResponse)]
        ELSE [s1 EXCEPT !.changes = add_room(@, room_id, room_info)]

\* A join bucket that does not look at timeline.limited.
process_joined_room_ignoring_limited(s, room_id, new_info, requested) ==
    LET s0 == [s EXCEPT !.rooms = get_or_create_room(@, room_id, "Joined")]
        info0 == JoinedRoomInfo(s0.rooms[room_id], new_info, requested)
        hs == handle_state(s0.store, deserialize_state_events(new_info.state), info0,
                           s0.changes, room_id)
    IN  The({joined_room_after_timeline(s0, room_id, new_info.account_data, hs, ht) :
                ht \in {handle_timeline(s0, room_id, new_info.timeline, hs.user_ids,
                                        hs.room_info, hs.changes)}})

process_joined_room(s, room_id, new_info, requested) ==
    LET s0 == [s EXCEPT !.rooms = get_or_create_room(@, room_id, "Joined")]
        info0 == JoinedRoomInfo(s0.rooms[room_id], new_info, requested)
        hs == handle_state(s0.store, deserialize_state_events(new_info.state), info0,
                           s0.changes, room_id)
        info1 == IF new_info.limited THEN mark_members_missing(hs.room_info) ELSE hs.room_info
    IN  The({joined_room_after_timeline(s0, room_id, new_info.account_data, hs, ht) :
                ht \in {handle_timeline(s0, room_id, new_info.timeline, hs.user_ids, info1,
                                        hs.changes)}})

process_left_room(s, room_id, new_info, requested) ==
    LET s0 == [s EXCEPT !.rooms = get_or_create_room(@, room_id, "Left")]
        info0 == LeftRoomInfo(s0.rooms[room_id], requested)
        hs == handle_state(s0.store, deserialize_state_events(new_info.state), info0,
                           s0.changes, room_id)
    IN  The({IF ht.status # "Ok"
             THEN [s0 EXCEPT !.trace = ht.trace, !.ret = Result(ht.status, NoResponse)]
             ELSE [s0 EXCEPT !.changes = handle_room_account_data(
                                             s0, room_id, new_info.account_data,
                                             add_room(ht.changes, room_id, ht.room_info),
                                             EmptyMap).changes,
                             !.trace = ht.trace,
                             !.notifications = IF ht.notifications = << >> THEN @
                                               ELSE Put(@, room_id, ht.notifications),
                             !.timelines.leave = Put(@, room_id, ht.timeline)] :
                ht \in {handle_timeline(s0, room_id, new_info.timeline, hs.user_ids,
                                        hs.room_info, hs.changes)}})

process_invited_room(s, room_id, new_info) ==
    LET s0 == [s EXCEPT !.rooms = get_or_create_room(@, room_id, "Invited")]
        info0 == InvitedRoomInfo(s0.rooms[room_id])
        hi == handle_invited_state(s0, room_id, deserialize_state_events(new_info.state),
                                   info0, s0.changes)
    IN  [s0 EXCEPT !.changes = add_room(hi.changes, room_id, hi.room_info),
                   !.notifications = IF hi.notifications = << >> THEN @
                                     ELSE Put(@, room_id, hi.notifications)]

process_knocked_room(s, room_id, new_info) ==
    LET s0 == [s EXCEPT !.rooms = get_or_create_room(@, room_id, "Knocked")]
        info0 == KnockedRoomInfo(s0.rooms[room_id])
        hi == handle_invited_state(s0, room_id, deserialize_state_events(new_info.state),
                                   info0, s0.changes)
    IN  [s0 EXCEPT !.changes = add_room(hi.changes, room_id, hi.room_info),
                   !.notifications = IF hi.notifications = << >> THEN @
                                     ELSE Put(@, room_id, hi.notifications)]

RECURSIVE process_rooms(_, _, _, _)
process_rooms(s, i, response, requested) ==
    IF i > 4 * Len(RoomOrder) \/ s.ret.status # "none" THEN s
    ELSE LET bucket == (i - 1) \div Len(RoomOrder)
             room_id == RoomOrder[((i - 1) % Len(RoomOrder)) + 1]
             s1 == CASE bucket = 0 /\ room_id \in DOMAIN response.join ->
                           process_joined_room(s, room_id, response.join[room_id], requested)
                      [] bucket = 1 /\ room_id \in DOMAIN response.leave ->
                           process_left_room(s, room_id, response.leave[room_id], requested)
                      [] bucket = 2 /\ room_id \in DOMAIN response.invite ->
                           process_invited_room(s, room_id, response.invite[room_id])
                      [] bucket = 3 /\ room_id \in DOMAIN response.knock ->
                           process_knocked_room(s, room_id, response.knock[room_id])
                      [] OTHER -> s
         IN  The({process_rooms(next, i + 1, response, requested) : next \in {s1}})

(***************************************************************************)
(* The commit of a change set.                                             *)
(***************************************************************************)
\* load_previous_ignored_user_list: a store error reads as "no previous list".
load_previous_ignored_user_list(st, read_ok) ==
    IF read_ok THEN st.ignored_user_list ELSE NoAccountData

\* An observable set for every ignored-user list a commit carries.
IgnoredUserListAlways(new, prev) == new.present /\ new.valid

\* apply_changes, first part: whether the observable of ignored users is set.
IgnoredUserListChanged(new, prev) ==
    /\ new.present
    /\ new.valid
    /\ IF prev.present /\ prev.valid THEN new.users # prev.users ELSE TRUE

\* apply_changes, second part: Room::set_room_info for every RoomInfo of the
\* change set whose Room exists, which also sends the RoomInfoNotableUpdate.
RECURSIVE set_room_infos(_, _, _, _)
set_room_infos(s, i, changes, reasons) ==
    IF i > Len(RoomOrder) THEN s
    ELSE LET room_id == RoomOrder[i] IN
         IF room_id \in DOMAIN changes.room_infos /\ room_id \in DOMAIN s.rooms
         THEN set_room_infos(
                [s EXCEPT !.rooms = Put(@, room_id, changes.room_infos[room_id]),
                          !.trace = Append(@, T("set_room_info", room_id,
                                                GetOr(reasons, room_id, {}), ""))],
                i + 1, changes, reasons)
         ELSE set_room_infos(s, i + 1, changes, reasons)

apply_changes(s, changes, reasons, prev_ignored_user_list) ==
    LET s1 == IF IgnoredUserListChanged(changes.ignored_user_list, prev_ignored_user_list)
              THEN [s EXCEPT !.ignore_user_list_changes = changes.ignored_user_list.users,
                             !.trace = Append(@, T("ignore_user_list_changes", "",
                                                   changes.ignored_user_list.users, "set"))]
              ELSE s
    IN  set_room_infos(s1, 1, changes, reasons)

\* A commit that advances the token before it saves.
SyncCommitTokenFirst(s, response, env) ==
    LET s1 == [s EXCEPT !.sync_token = response.next_batch,
                        !.trace = @ \o << T("lock", "", {}, "sync_lock"),
                                          T("store_read", "", {}, "ignored_user_list"),
                                          T("set_sync_token", "", {}, response.next_batch) >>]
        prev == load_previous_ignored_user_list(s.store, env.read_ok)
    IN  IF ~env.save_ok
        THEN [s1 EXCEPT !.ret = Result("StoreError", NoResponse),
                        !.trace = @ \o << T("save_changes", "", {}, "error"),
                                          T("unlock", "", {}, "sync_lock") >>]
        ELSE LET s2 == [s1 EXCEPT !.store = save_changes(@, s.changes),
                                  !.trace = Append(@, T("save_changes", "", {}, "ok"))]
                 s3 == apply_changes(s2, s.changes, s.room_info_notable_updates, prev)
             IN  [s3 EXCEPT !.trace = Append(@, T("unlock", "", {}, "sync_lock"))]

\* A commit that saves and applies the changes but keeps the old token.
SyncCommitKeepsToken(s, response, env) ==
    LET s1 == [s EXCEPT !.trace = @ \o << T("lock", "", {}, "sync_lock"),
                                          T("store_read", "", {}, "ignored_user_list") >>]
        prev == load_previous_ignored_user_list(s.store, env.read_ok)
    IN  IF ~env.save_ok
        THEN [s1 EXCEPT !.ret = Result("StoreError", NoResponse),
                        !.trace = @ \o << T("save_changes", "", {}, "error"),
                                          T("unlock", "", {}, "sync_lock") >>]
        ELSE LET s2 == [s1 EXCEPT !.store = save_changes(@, s.changes),
                                  !.trace = Append(@, T("save_changes", "", {}, "ok"))]
                 s3 == apply_changes(s2, s.changes, s.room_info_notable_updates, prev)
             IN  [s3 EXCEPT !.trace = Append(@, T("unlock", "", {}, "sync_lock"))]

\* The region of receive_sync_response that runs under sync_lock.
SyncCommit(s, response, env) ==
    LET s1 == [s EXCEPT !.trace = @ \o << T("lock", "", {}, "sync_lock"),
                                          T("store_read", "", {}, "ignored_user_list") >>]
        prev == load_previous_ignored_user_list(s.store, env.read_ok)
    IN  IF ~env.save_ok
        THEN [s1 EXCEPT !.ret = Result("StoreError", NoResponse),
                        !.trace = @ \o << T("save_changes", "", {}, "error"),
                                          T("unlock", "", {}, "sync_lock") >>]
        ELSE LET s2 == [s1 EXCEPT !.store = save_changes(@, s.changes),
                                  !.sync_token = response.next_batch,
                                  !.trace = @ \o << T("save_changes", "", {}, "ok"),
                                                    T("set_sync_token", "", {},
                                                      response.next_batch) >>]
                 s3 == apply_changes(s2, s.changes, s.room_info_notable_updates, prev)
             IN  [s3 EXCEPT !.trace = Append(@, T("unlock", "", {}, "sync_lock"))]

\* The RoomMembersUpdate::Partial broadcasts that end a sync.
RECURSIVE send_member_updates(_, _)
send_member_updates(s, i) ==
    IF i > Len(RoomOrder) THEN s
    ELSE LET room_id == RoomOrder[i] IN
         IF room_id \in DOMAIN s.updated_members_in_room /\ room_id \in DOMAIN s.rooms
         THEN send_member_updates(
                [s EXCEPT !.trace = Append(@, T("room_member_updates", room_id,
                                                s.updated_members_in_room[room_id], "Partial"))],
                i + 1)
         ELSE send_member_updates(s, i + 1)

(***************************************************************************)
(* receive_sync_response                                                   *)
(***************************************************************************)
\* A receive_sync_response without the replay guard.
SameSyncTokenNever(s, response) == FALSE

\* The replay guard.
SameSyncToken(s, response) == s.sync_token = response.next_batch

MentionedRooms(response) ==
    (DOMAIN response.join) \cup (DOMAIN response.leave)
        \cup (DOMAIN response.invite) \cup (DOMAIN response.knock)

\* preprocess_to_device_events
preprocess_to_device_events(s) ==
    IF s.olm_machine
    THEN [s EXCEPT !.trace = Append(@, T("crypto", "", {}, "receive_sync_changes"))]
    ELSE s

\* The entry of `trace` for the Ruleset get_push_rules returned: `what` is its
\* kind, `users` holds what identifies it (the user of a server default, the
\* content of a global Ruleset).
GotRuleset(push_rules) ==
    T("get_push_rules", "", IF push_rules.kind = "empty" THEN {} ELSE {push_rules.id},
      push_rules.kind)

\* The call of get_push_rules in a sync: the store is read when the response
\* brings no usable m.push_rules event, and an error of that read ends the sync.
load_push_rules(s, response, env) ==
    LET s1 == IF Usable(response.push_rules) THEN s
              ELSE [s EXCEPT !.trace = Append(@, T("store_read", "", {}, "push_rules"))]
        push_rules == get_push_rules(s, response)
    IN  IF ~Usable(response.push_rules) /\ ~env.rules_ok
        THEN [s1 EXCEPT !.ret = Result("StoreError", NoResponse)]
        ELSE [s1 EXCEPT !.push_rules = push_rules,
                        !.trace = Append(@, GotRuleset(push_rules))]

SyncSummary(response) ==
    [join |-> DOMAIN response.join, leave |-> DOMAIN response.leave,
     invite |-> DOMAIN response.invite, knocked |-> DOMAIN response.knock,
     account_data |-> response.ignored_user_list.present,
     timeline |-> NoTimelines, notifications |-> EmptyMap]

\* A sync that commits what it has accumulated even after an error.
sync_after_rooms_committing_errors(s2, response, env) ==
    LET s3 == [s2 EXCEPT !.changes.ignored_user_list = response.ignored_user_list,
                         !.changes.push_rules = response.push_rules]
        s4 == SyncCommit(s3, response, env)
    IN  IF s2.ret.status # "none" THEN [s4 EXCEPT !.ret = s2.ret]
        ELSE IF s4.ret.status = "StoreError" THEN s4
        ELSE [send_member_updates(s4, 1) EXCEPT
                  !.ret = Result("Ok", [SyncSummary(response) EXCEPT
                                           !.timeline = s2.timelines,
                                           !.notifications = s2.notifications])]

\* receive_sync_response once the rooms are processed: an error so far ends
\* the call; otherwise the account data joins the changes, the changes are
\* committed, and the SyncResponse carries the timelines.
sync_after_rooms(s2, response, env) ==
    LET s3 == [s2 EXCEPT !.changes.ignored_user_list = response.ignored_user_list,
                         !.changes.push_rules = response.push_rules]
        s4 == SyncCommit(s3, response, env)
    IN  IF s2.ret.status # "none" THEN s2
        ELSE IF s4.ret.status = "StoreError" THEN s4
        ELSE [send_member_updates(s4, 1) EXCEPT
                  !.ret = Result("Ok", [SyncSummary(response) EXCEPT
                                           !.timeline = s2.timelines,
                                           !.notifications = s2.notifications])]

\* receive_sync_response up to the commit: the to-device events, the push
\* rules and the rooms of the four buckets, gathered in the call's locals.
sync_before_commit(s, response, requested, env) ==
    LET s0 == [session_meta |-> s.session_meta, olm_machine |-> s.olm_machine,
               sync_token |-> s.sync_token, rooms |-> s.rooms, store |-> s.store,
               event_cache_store |-> s.event_cache_store,
               tracked_users |-> s.tracked_users,
               ignore_user_list_changes |-> s.ignore_user_list_changes,
               ret |-> Result("none", NoResponse), trace |-> s.trace,
               changes |-> NewStateChanges(response.next_batch),
               room_info_notable_updates |-> EmptyMap,
               updated_members_in_room |-> EmptyMap,
               push_rules |-> EmptyRuleset, timelines |-> NoTimelines,
               notifications |-> EmptyMap]
        s1 == load_push_rules(preprocess_to_device_events(s0), response, env)
    IN  process_rooms(s1, 1, response, requested)

receive_sync_response(s, response, requested, env) ==
    IF SameSyncToken(s, response)
    THEN [s EXCEPT !.ret = Result("Ok", NoResponse)]
    ELSE The({sync_after_rooms(s2, response, env) :
                 s2 \in {sync_before_commit(s, response, requested, env)}})

(***************************************************************************)
(* Sync responses fed to the client.                                       *)
(***************************************************************************)
JoinedRoom(state, timeline, limited, prev_batch) ==
    [state |-> state, timeline |-> timeline, limited |-> limited, prev_batch |-> prev_batch,
     account_data |-> << >>, summary |-> NoSummary]

\* The room update with the given summary.
WithSummary(update, summary) == [update EXCEPT !.summary = summary]

\* The room update with the given room account data events.
WithAccountData(update, events) == [update EXCEPT !.account_data = events]

StrippedRoom(state) == [state |-> state]

IgnoredUserList(users) == [present |-> TRUE, valid |-> TRUE, users |-> users]

InvalidIgnoredUserList == [present |-> TRUE, valid |-> FALSE, users |-> {}]

Response(next_batch, join, leave, invite, knock, ignored_user_list) ==
    [next_batch |-> next_batch, join |-> join, leave |-> leave, invite |-> invite,
     knock |-> knock, ignored_user_list |-> ignored_user_list, push_rules |-> NoPushRules]

\* The same response with an m.push_rules event among its global account data.
WithPushRules(response, push_rules) == [response EXCEPT !.push_rules = push_rules]

Only(room_id, content) == [r \in {room_id} |-> content]

Quiet == JoinedRoom(<< >>, << >>, FALSE, "none")

\* An encrypted room with a joined and an invited member.
EncryptedRoom(visibility) ==
    JoinedRoom(<< Encryption, HistoryVisibility(visibility),
                  Member(Alice, Alice, "join", "A"), Member(Bob, Alice, "invite", "B") >>,
               << >>, FALSE, "p1")

\* Encryption without any history visibility event.
EncryptedNoVisibility ==
    JoinedRoom(<< Member(Bob, Bob, "join", "B") >>, << Encryption >>, FALSE, "p1")

\* A gappy timeline that carries the own user's leave, after a malformed state event.
OwnLeave ==
    JoinedRoom(<< Invalid, RoomName >>, << Member(Alice, Alice, "leave", ""), Message >>,
               TRUE, "p2")

OwnJoin == JoinedRoom(<< Member(Alice, Alice, "join", "A") >>, << >>, FALSE, "p1")

InviteOf == StrippedRoom(<< Member(Bob, Bob, "join", "B"), Member(Alice, Bob, "invite", "A") >>)

StrippedOwnJoin == StrippedRoom(<< Invalid, Member(Alice, Alice, "join", "A") >>)

KnockOf == StrippedRoom(<< Member(Alice, Alice, "knock", "A") >>)

OkEnv == [save_ok |-> TRUE, read_ok |-> TRUE, rules_ok |-> TRUE]

SaveFails == [save_ok |-> FALSE, read_ok |-> TRUE, rules_ok |-> TRUE]

ReadFails == [save_ok |-> TRUE, read_ok |-> FALSE, rules_ok |-> TRUE]

\* The read of the stored m.push_rules event fails.
RulesReadFails == [save_ok |-> TRUE, read_ok |-> TRUE, rules_ok |-> FALSE]

InBucket(bucket, room_id, content) ==
    [join |-> IF bucket = "join" THEN Only(room_id, content) ELSE EmptyMap,
     leave |-> IF bucket = "leave" THEN Only(room_id, content) ELSE EmptyMap,
     invite |-> IF bucket = "invite" THEN Only(room_id, content) ELSE EmptyMap,
     knock |-> IF bucket = "knock" THEN Only(room_id, content) ELSE EmptyMap]

\* Responses whose commit is also tried against a failing store.
FailingShapes ==
    {InBucket("join", R1, EncryptedRoom("joined")),
     InBucket("invite", R1, InviteOf),
     [join |-> [r \in Rooms |-> IF r = R1 THEN OwnJoin ELSE Quiet],
      leave |-> EmptyMap, invite |-> EmptyMap, knock |-> EmptyMap]}

RoomShapes ==
    {InBucket("join", R1, c) : c \in {Quiet, EncryptedRoom("shared"),
                                      EncryptedNoVisibility, OwnLeave}}
    \cup {InBucket("leave", R1, c) : c \in {EncryptedNoVisibility, OwnJoin}}
    \cup {InBucket("invite", R1, StrippedOwnJoin)}
    \cup {InBucket("knock", R1, c) : c \in {KnockOf, StrippedOwnJoin}}
    \cup {[join |-> Only(R2, OwnJoin), leave |-> EmptyMap, invite |-> Only(R1, InviteOf),
           knock |-> EmptyMap],
          [join |-> Only(R1, OwnLeave), leave |-> Only(R1, Quiet), invite |-> EmptyMap,
           knock |-> EmptyMap],
          [join |-> Only(R1, OwnJoin), leave |-> EmptyMap, invite |-> Only(R1, InviteOf),
           knock |-> EmptyMap]}
    \cup FailingShapes

RoomInputs ==
    {[response |-> Response(t, sh.join, sh.leave, sh.invite, sh.knock, NoAccountData),
      requested |-> FALSE, env |-> OkEnv] : t \in Tokens, sh \in RoomShapes}
    \cup {[response |-> Response(t, sh.join, sh.leave, sh.invite, sh.knock, NoAccountData),
           requested |-> FALSE, env |-> SaveFails] : t \in Tokens, sh \in FailingShapes}
    \cup {[response |-> Response(t, Only(R1, Quiet), EmptyMap, EmptyMap, EmptyMap, NoAccountData),
           requested |-> TRUE, env |-> OkEnv] : t \in Tokens}

AccountDataInputs ==
    {[response |-> Response(t, EmptyMap, EmptyMap, EmptyMap, EmptyMap, a),
      requested |-> FALSE, env |-> OkEnv] :
        t \in Tokens,
        a \in {NoAccountData, InvalidIgnoredUserList, IgnoredUserList({}), IgnoredUserList({Bob})}}
    \cup {[response |-> Response(t, EmptyMap, EmptyMap, EmptyMap, EmptyMap, IgnoredUserList({Bob})),
           requested |-> FALSE, env |-> e] : t \in Tokens, e \in {SaveFails, ReadFails}}

SyncInputs == RoomInputs \cup AccountDataInputs

SyncCall(in) ==
    [NoCall EXCEPT !.op = "receive_sync_response", !.next_batch = in.response.next_batch,
                   !.input = in.response, !.requested = in.requested, !.env = in.env]

ReceiveSyncResponse ==
    /\ Running
    /\ \E in \in SyncInputs :
          /\ MentionedRooms(in.response) # {} => LoggedIn
          /\ Install(SyncCall(in), receive_sync_response(Cur, in.response, in.requested, in.env))

(***************************************************************************)
(* room_knocked, room_joined, room_left                                    *)
(***************************************************************************)
\* A body that replaces the Room's RoomInfo before it persists it.
SetRoomStateBeforeSave(s, room_id, target, save_ok) ==
    LET s0 == [s EXCEPT !.rooms = get_or_create_room(@, room_id, target)]
    IN  IF s0.rooms[room_id].state # target
        THEN LET room_info == mark_members_missing(
                                  mark_state_partially_synced(
                                      mark_as(s0.rooms[room_id], target)))
                 changes == add_room(NewStateChanges(NoToken), room_id, room_info)
                 s1 == [s0 EXCEPT !.rooms = Put(@, room_id, room_info),
                                  !.trace = @ \o << T("lock", "", {}, "sync_lock"),
                                                    T("set_room_info", room_id,
                                                      {"MEMBERSHIP"}, "") >>]
             IN  IF ~save_ok
                 THEN [s1 EXCEPT !.ret = Result("StoreError", NoResponse),
                                 !.trace = @ \o << T("save_changes", "", {}, "error"),
                                                   T("unlock", "", {}, "sync_lock") >>]
                 ELSE [s1 EXCEPT !.store = save_changes(@, changes),
                                 !.ret = Result("Ok", NoResponse),
                                 !.trace = @ \o << T("save_changes", "", {}, "ok"),
                                                   T("unlock", "", {}, "sync_lock") >>]
        ELSE [s0 EXCEPT !.ret = Result("Ok", NoResponse)]

\* The body the three methods share: under sync_lock, persist the RoomInfo in
\* the target state, then replace the Room's RoomInfo.
SetRoomState(s, room_id, target, save_ok) ==
    LET s0 == [s EXCEPT !.rooms = get_or_create_room(@, room_id, target)]
    IN  IF s0.rooms[room_id].state # target
        THEN LET room_info == mark_members_missing(
                                  mark_state_partially_synced(
                                      mark_as(s0.rooms[room_id], target)))
                 changes == add_room(NewStateChanges(NoToken), room_id, room_info)
                 s1 == [s0 EXCEPT !.trace = Append(@, T("lock", "", {}, "sync_lock"))]
             IN  IF ~save_ok
                 THEN [s1 EXCEPT !.ret = Result("StoreError", NoResponse),
                                 !.trace = @ \o << T("save_changes", "", {}, "error"),
                                                   T("unlock", "", {}, "sync_lock") >>]
                 ELSE [s1 EXCEPT !.store = save_changes(@, changes),
                                 !.rooms = Put(@, room_id, room_info),
                                 !.ret = Result("Ok", NoResponse),
                                 !.trace = @ \o << T("save_changes", "", {}, "ok"),
                                                   T("set_room_info", room_id,
                                                     {"MEMBERSHIP"}, ""),
                                                   T("unlock", "", {}, "sync_lock") >>]
        ELSE [s0 EXCEPT !.ret = Result("Ok", NoResponse)]

room_knocked(s, room_id, save_ok) == SetRoomState(s, room_id, "Knocked", save_ok)

room_joined(s, room_id, save_ok) == SetRoomState(s, room_id, "Joined", save_ok)

room_left(s, room_id, save_ok) == SetRoomState(s, room_id, "Left", save_ok)

\* The store fails for one of the rooms only.
RoomStateInputs ==
    {[room |-> R1, save_ok |-> TRUE], [room |-> R1, save_ok |-> FALSE],
     [room |-> R2, save_ok |-> TRUE]}

RoomCall(op, room_id, env) == [NoCall EXCEPT !.op = op, !.room = room_id, !.env = env]

RoomKnocked ==
    /\ Running
    /\ LoggedIn
    /\ \E in \in RoomStateInputs :
          Install(RoomCall("room_knocked", in.room, in.save_ok),
                  room_knocked(Cur, in.room, in.save_ok))

RoomJoined ==
    /\ Running
    /\ LoggedIn
    /\ \E in \in RoomStateInputs :
          Install(RoomCall("room_joined", in.room, in.save_ok),
                  room_joined(Cur, in.room, in.save_ok))

RoomLeft ==
    /\ Running
    /\ LoggedIn
    /\ \E in \in RoomStateInputs :
          Install(RoomCall("room_left", in.room, in.save_ok),
                  room_left(Cur, in.room, in.save_ok))

(***************************************************************************)
(* receive_all_members                                                     *)
(***************************************************************************)
MembersRequest(membership, not_membership, at) ==
    [membership |-> membership, not_membership |-> not_membership, at |-> at]

\* A check that forgets the `at` token of the request.
IsFilteredIgnoringAt(request) == request.membership \/ request.not_membership

\* The request carries a filter.
IsFiltered(request) == request.membership \/ request.not_membership \/ request.at

\* A loop that keeps joined members only.
RECURSIVE members_chunk_joined_only(_, _, _, _)
members_chunk_joined_only(chunk, i, room_id, acc) ==
    IF i > Len(chunk) THEN acc
    ELSE LET ev == chunk[i] IN
         IF ~Deserializes(ev) \/ ev.membership # "join"
         THEN members_chunk_joined_only(chunk, i + 1, room_id, acc)
         ELSE members_chunk_joined_only(chunk, i + 1, room_id,
                [changes |-> add_state_event(
                                handle_room_member_event_for_profiles(room_id, ev, acc.changes),
                                room_id, ev),
                 user_ids |-> acc.user_ids \cup {ev.state_key}])

\* ambiguity_map.entry(display_name).or_default().insert(state_key), for a
\* member event that has a display name.
ambiguity_map_insert(changes, room_id, member) ==
    IF member.displayname = "" THEN changes
    ELSE LET ambiguity_map == GetOr(changes.ambiguity_maps, room_id, EmptyMap)
         IN  [changes EXCEPT !.ambiguity_maps =
                 Put(@, room_id,
                     Put(ambiguity_map, member.displayname,
                         GetOr(ambiguity_map, member.displayname, {})
                             \cup {member.state_key}))]

\* The loop of receive_all_members, and the insert of the ambiguity map of
\* the chunk into the changes that follows it.
RECURSIVE members_chunk_from(_, _, _, _)
members_chunk_from(chunk, i, room_id, acc) ==
    IF i > Len(chunk)
    THEN [acc EXCEPT !.changes.ambiguity_maps = Put(@, room_id, GetOr(@, room_id, EmptyMap))]
    ELSE LET ev == chunk[i] IN
         IF ~Deserializes(ev) THEN members_chunk_from(chunk, i + 1, room_id, acc)
         ELSE members_chunk_from(chunk, i + 1, room_id,
                [changes |-> add_state_event(
                                handle_room_member_event_for_profiles(
                                    room_id, ev,
                                    ambiguity_map_insert(acc.changes, room_id, ev)),
                                room_id, ev),
                 user_ids |-> IF ev.membership \in {"join", "invite"}
                              THEN acc.user_ids \cup {ev.state_key}
                              ELSE acc.user_ids])

receive_all_members(s, room_id, request, chunk, env) ==
    IF IsFiltered(request)
    THEN [s EXCEPT !.ret = Result("InvalidReceiveMembersParameters", NoResponse)]
    ELSE IF room_id \notin DOMAIN s.rooms
    THEN [s EXCEPT !.ret = Result("Ok", NoResponse)]
    ELSE
    LET loop == members_chunk_from(chunk, 1, room_id,
                                   [changes |-> NewStateChanges(NoToken), user_ids |-> {}])
        s1 == IF is_encrypted(s.rooms[room_id]) /\ s.olm_machine
              THEN update_tracked_users(s, room_id, loop.user_ids)
              ELSE s
        s2 == [s1 EXCEPT !.trace = @ \o << T("lock", "", {}, "sync_lock"),
                                           T("store_read", "", {}, "ignored_user_list") >>]
        changes == add_room(loop.changes, room_id, mark_members_synced(s.rooms[room_id]))
        prev == load_previous_ignored_user_list(s.store, env.read_ok)
    IN  IF ~env.save_ok
        THEN [s2 EXCEPT !.ret = Result("StoreError", NoResponse),
                        !.trace = @ \o << T("save_changes", "", {}, "error"),
                                          T("unlock", "", {}, "sync_lock") >>]
        ELSE LET s3 == apply_changes(
                          [s2 EXCEPT !.store = save_changes(@, changes),
                                     !.trace = Append(@, T("save_changes", "", {}, "ok"))],
                          changes, EmptyMap, prev)
             IN  [s3 EXCEPT !.ret = Result("Ok", NoResponse),
                            !.trace = @ \o << T("room_member_updates", room_id, {},
                                                "FullReload"),
                                              T("unlock", "", {}, "sync_lock") >>]

Unfiltered == MembersRequest(FALSE, FALSE, FALSE)

FilteredRequests ==
    {MembersRequest(TRUE, FALSE, FALSE), MembersRequest(FALSE, TRUE, FALSE),
     MembersRequest(FALSE, FALSE, TRUE)}

InvitedAlice == << Member(Alice, Bob, "invite", "Invited Alice") >>

MixedChunk == << Invalid, Member(Bob, Bob, "join", "B"), Member(Alice, Alice, "leave", "") >>

BannedBob == << Member(Bob, Bob, "leave", "B"), Member(Bob, Alice, "ban", "X") >>

MembersInputs ==
    {[room |-> R1, request |-> q, chunk |-> InvitedAlice, env |-> OkEnv] :
        q \in FilteredRequests}
    \cup {[room |-> R1, request |-> Unfiltered, chunk |-> c, env |-> e] :
            c \in {InvitedAlice, MixedChunk, BannedBob}, e \in {OkEnv, SaveFails}}
    \cup {[room |-> R2, request |-> Unfiltered, chunk |-> MixedChunk, env |-> OkEnv]}

ReceiveAllMembers ==
    /\ Running
    /\ \E in \in MembersInputs :
          Install([NoCall EXCEPT !.op = "receive_all_members", !.room = in.room,
                                 !.input = << in.request, in.chunk >>, !.env = in.env],
                  receive_all_members(Cur, in.room, in.request, in.chunk, in.env))

(***************************************************************************)
(* forget_room                                                             *)
(***************************************************************************)
\* BaseStateStore::forget_room: the store first, then the map of Rooms.
state_store_forget_room(s, room_id) ==
    [s EXCEPT !.store = remove_room(@, room_id),
              !.rooms = Remove(@, room_id),
              !.trace = Append(@, T("forget_room", room_id, {}, "ok"))]

\* A forget_room that does not propagate the errors of the event cache store.
forget_room_ignoring_event_cache(s, room_id, outcome) ==
    IF outcome = "state_store_error"
    THEN [s EXCEPT !.ret = Result("StoreError", NoResponse),
                   !.trace = Append(@, T("forget_room", room_id, {}, "error"))]
    ELSE LET s1 == state_store_forget_room(s, room_id) IN
    IF outcome = "lock_error"
    THEN [s1 EXCEPT !.ret = Result("Ok", NoResponse),
                    !.trace = Append(@, T("event_cache_lock", room_id, {}, "error"))]
    ELSE IF outcome = "remove_error"
    THEN [s1 EXCEPT !.ret = Result("Ok", NoResponse),
                    !.trace = @ \o << T("event_cache_lock", room_id, {}, "ok"),
                                      T("event_cache_remove_room", room_id, {}, "error") >>]
    ELSE [s1 EXCEPT !.event_cache_store = @ \ {room_id},
                    !.ret = Result("Ok", NoResponse),
                    !.trace = @ \o << T("event_cache_lock", room_id, {}, "ok"),
                                      T("event_cache_remove_room", room_id, {}, "ok") >>]

forget_room(s, room_id, outcome) ==
    IF outcome = "state_store_error"
    THEN [s EXCEPT !.ret = Result("StoreError", NoResponse),
                   !.trace = Append(@, T("forget_room", room_id, {}, "error"))]
    ELSE LET s1 == state_store_forget_room(s, room_id) IN
    IF outcome = "lock_error"
    THEN [s1 EXCEPT !.ret = Result("LockStoreError", NoResponse),
                    !.trace = Append(@, T("event_cache_lock", room_id, {}, "error"))]
    ELSE IF outcome = "remove_error"
    THEN [s1 EXCEPT !.ret = Result("EventCacheStoreError", NoResponse),
                    !.trace = @ \o << T("event_cache_lock", room_id, {}, "ok"),
                                      T("event_cache_remove_room", room_id, {}, "error") >>]
    ELSE [s1 EXCEPT !.event_cache_store = @ \ {room_id},
                    !.ret = Result("Ok", NoResponse),
                    !.trace = @ \o << T("event_cache_lock", room_id, {}, "ok"),
                                      T("event_cache_remove_room", room_id, {}, "ok") >>]

ForgetOutcomes == {"ok", "state_store_error", "lock_error", "remove_error"}

ForgetInputs ==
    {[room |-> R1, outcome |-> o] : o \in ForgetOutcomes} \cup {[room |-> R2, outcome |-> "ok"]}

ForgetRoom ==
    /\ Running
    /\ \E in \in ForgetInputs :
          Install(RoomCall("forget_room", in.room, in.outcome),
                  forget_room(Cur, in.room, in.outcome))

(***************************************************************************)
(* share_room_key                                                          *)
(***************************************************************************)
\* Room::history_visibility_or_default
history_visibility_or_default(info) ==
    IF info.history_visibility = "none" THEN "shared" ELSE info.history_visibility

\* A filter that always includes the invited members.
ShareFilterActive(history_visibility) == "ACTIVE"

\* Invited members get no key when the history is visible to joined members only.
ShareFilter(history_visibility) ==
    IF history_visibility = "joined" THEN "JOIN" ELSE "ACTIVE"

share_room_key(s, room_id) ==
    IF ~s.olm_machine
    THEN [s EXCEPT !.ret = Result("Panic", NoResponse)]
    ELSE IF room_id \notin DOMAIN s.rooms
    THEN [s EXCEPT !.ret = Result("InsufficientData", NoResponse)]
    ELSE IF ~is_encrypted(s.rooms[room_id])
    THEN [s EXCEPT !.ret = Result("EncryptionNotEnabled", NoResponse)]
    ELSE LET filter == ShareFilter(history_visibility_or_default(s.rooms[room_id]))
             members == get_user_ids(s.store, room_id, filter)
         IN  [s EXCEPT !.ret = Result("Ok", NoResponse),
                       !.trace = @ \o << T("store_read", room_id, {}, filter),
                                         T("crypto", room_id, members, "share_room_key") >>]

ShareRoomKey ==
    /\ Running
    /\ \E room_id \in Rooms :
          Install(RoomCall("share_room_key", room_id, ""), share_room_key(Cur, room_id))

(***************************************************************************)
(* The client after construction, over a store that is empty or that holds *)
(* what an earlier run of the client persisted.                            *)
(***************************************************************************)
Fresh(st) ==
    [session_meta |-> NoSession, olm_machine |-> FALSE, sync_token |-> NoToken,
     rooms |-> EmptyMap, store |-> st, event_cache_store |-> Rooms,
     tracked_users |-> {}, ignore_user_list_changes |-> {},
     ret |-> Result("none", NoResponse), trace |-> << >>]

\* What an earlier session of the client left behind.
PersistedSession ==
    receive_sync_response(
        activate(Fresh(EmptyStore), Alice, "ok"),
        Response("t1", Only(R1, EncryptedRoom("joined")), EmptyMap, EmptyMap, EmptyMap,
                 IgnoredUserList({Bob})),
        FALSE, OkEnv)

PersistedStore == PersistedSession.store

\* The users the crypto store of that session tracks.
PersistedTrackedUsers == PersistedSession.tracked_users

InitialStores == {EmptyStore, PersistedStore}

Init ==
    /\ store \in InitialStores
    /\ session_meta = NoSession
    /\ olm_machine = FALSE
    /\ sync_token = NoToken
    /\ rooms = EmptyMap
    /\ event_cache_store = Rooms
    /\ tracked_users = IF store = PersistedStore THEN PersistedTrackedUsers ELSE {}
    /\ ignore_user_list_changes = {}
    /\ call = NoCall
    /\ ret = Result("none", NoResponse)
    /\ trace = << >>
    /\ nops = 0
    /\ sync_lock = "free"
    /\ tasks = [t \in TaskIds |-> Idle]

Next ==
    \/ Activate
    \/ ReceiveSyncResponse
    \/ ReceiveAllMembers
    \/ RoomKnocked
    \/ RoomJoined
    \/ RoomLeft
    \/ ForgetRoom
    \/ ShareRoomKey

Spec == Init /\ [][Next]_vars

(***************************************************************************)
(* Activation and the OlmMachine.  ActivateSpec runs activate and          *)
(* regenerate_olm, with their failures, in any order.                      *)
(***************************************************************************)
RegenerateOlmOutcomes == {"ok", "olm_error"}

RegenerateOlm ==
    /\ Running
    /\ \E outcome \in RegenerateOlmOutcomes :
          Install([NoCall EXCEPT !.op = "regenerate_olm", !.env = outcome],
                  regenerate_olm(Cur, outcome))

ActivateNext ==
    \/ Activate
    \/ RegenerateOlm

ActivateSpec == Init /\ [][ActivateNext]_vars

(***************************************************************************)
(* Syncs that bring timelines and push rules.  TimelineSpec runs them      *)
(* against the same client, activated or not, with or without OlmMachine.  *)
(***************************************************************************)
\* A message, a malformed event, an event that decrypts, one that does not,
\* and the first message again.
MixedTimeline == << Message, Invalid, Encrypted("decrypts"), Encrypted("utd"), Message >>

\* Beacons of one live location share, in the order they were sent.
BeaconTimeline == << Beacon("geo:0"), Beacon("geo:1"), Beacon("geo:2") >>

\* The decryption of the second event fails with an error of the crypto store.
FailingTimeline == << Message, Encrypted("error"), Message >>

\* The own join arrives between two messages.
OwnJoinTimeline == << Message, Member(Alice, Alice, "join", "Alice"), Message >>

TimelineOf(timeline) == JoinedRoom(<< >>, timeline, FALSE, "p1")

TimelineShapes ==
    {InBucket("join", R1, TimelineOf(tl)) :
        tl \in {MixedTimeline, BeaconTimeline, FailingTimeline, OwnJoinTimeline}}
    \cup {InBucket("leave", R1, TimelineOf(MixedTimeline)),
          [join |-> [r \in Rooms |-> IF r = R1 THEN TimelineOf(BeaconTimeline)
                                    ELSE TimelineOf(FailingTimeline)],
           leave |-> EmptyMap, invite |-> EmptyMap, knock |-> EmptyMap]}

TimelineInputs ==
    {[response |-> WithPushRules(
                       Response(t, sh.join, sh.leave, sh.invite, sh.knock, NoAccountData), pr),
      requested |-> FALSE, env |-> OkEnv] :
        t \in Tokens, sh \in TimelineShapes, pr \in {NoPushRules, PushRulesEvent("rules-a")}}
    \cup {[response |-> WithPushRules(
                            Response(t, EmptyMap, EmptyMap, EmptyMap, EmptyMap, NoAccountData),
                            pr),
           requested |-> FALSE, env |-> OkEnv] :
             t \in Tokens, pr \in {NoPushRules, InvalidPushRules, PushRulesEvent("rules-a"),
                                   PushRulesEvent("rules-b")}}
    \cup {[response |-> WithPushRules(
                            Response(t, EmptyMap, EmptyMap, EmptyMap, EmptyMap, NoAccountData),
                            pr),
           requested |-> FALSE, env |-> RulesReadFails] :
             t \in Tokens, pr \in {NoPushRules, PushRulesEvent("rules-b")}}

SyncTimeline ==
    /\ Running
    /\ \E in \in TimelineInputs :
          /\ MentionedRooms(in.response) # {} => LoggedIn
          /\ Install(SyncCall(in), receive_sync_response(Cur, in.response, in.requested, in.env))

TimelineNext ==
    \/ Activate
    \/ SyncTimeline

TimelineSpec == Init /\ [][TimelineNext]_vars

(***************************************************************************)
(* Syncs whose rooms bring what the push context is made of: the own       *)
(* member event, power levels and member counts, in the state section, in  *)
(* the timeline and in the stripped state of invitations.                  *)
(***************************************************************************)
\* The own display name and the power levels change between the messages.
ChangingContext ==
    WithSummary(JoinedRoom(<< Member(Alice, Alice, "join", "A"), PowerLevels("pl1") >>,
                           << Message, Member(Alice, Alice, "join", "A2"), Message,
                              PowerLevels("pl2"), Beacon("geo:0") >>,
                           FALSE, "p1"),
                Summary(2))

\* The own member event arrives after the first message.
LateOwnMember ==
    JoinedRoom(<< >>, << Message, Member(Alice, Alice, "join", ""), Message >>, FALSE, "p1")

\* Nothing tells who the own member is.
NoOwnMember ==
    JoinedRoom(<< Member(Bob, Bob, "join", "B") >>, << Message, Invalid, Encrypted("utd") >>,
               FALSE, "p1")

\* An invitation whose power levels follow the own member event.
InviteWithPowerLevels ==
    StrippedRoom(<< Member(Alice, Bob, "invite", "A"), Invalid, PowerLevels("pl1"),
                    Encryption >>)

\* An invitation that carries the own member event twice.
InviteTwice ==
    StrippedRoom(<< Member(Alice, Bob, "invite", "A"), Member(Bob, Bob, "join", "B"),
                    Member(Alice, Bob, "invite", "A2") >>)

KnockWithPowerLevels ==
    StrippedRoom(<< Member(Alice, Alice, "knock", "A"), PowerLevels("pl2") >>)

PushShapes ==
    {InBucket("join", R1, j) : j \in {ChangingContext, LateOwnMember, NoOwnMember}}
    \cup {InBucket("leave", R1, LateOwnMember)}
    \cup {InBucket("invite", R1, i) : i \in {InviteWithPowerLevels, InviteTwice, InviteOf}}
    \cup {InBucket("knock", R1, KnockWithPowerLevels)}
    \cup {[join |-> Only(R1, NoOwnMember), leave |-> Only(R1, ChangingContext),
           invite |-> Only(R2, InviteWithPowerLevels), knock |-> EmptyMap]}

PushInputs ==
    {[response |-> WithPushRules(
                       Response(t, sh.join, sh.leave, sh.invite, sh.knock, NoAccountData), pr),
      requested |-> FALSE, env |-> OkEnv] :
        t \in Tokens, sh \in PushShapes, pr \in {NoPushRules, PushRulesEvent("silent")}}
    \cup {[response |-> Response(t, sh.join, sh.leave, sh.invite, sh.knock, NoAccountData),
           requested |-> FALSE, env |-> SaveFails] :
             t \in Tokens, sh \in PushShapes}

SyncPush ==
    /\ Running
    /\ LoggedIn
    /\ \E in \in PushInputs :
          Install(SyncCall(in), receive_sync_response(Cur, in.response, in.requested, in.env))

PushNext ==
    \/ Activate
    \/ SyncPush

PushSpec == Init /\ [][PushNext]_vars

(***************************************************************************)
(* RequestedRequiredStates.  A required_state entry, a pair                *)
(* (StateEventType, String), is modelled by its rank in the order of such  *)
(* pairs; a Vec of entries is a sequence, which may repeat entries and     *)
(* need not be sorted.                                                     *)
(***************************************************************************)
RoomAvatar == 1
RoomEncryption == 2
RoomTopic == 3

\* The required_state vectors a caller or a request may carry.
RequiredStateVecs ==
    {<< >>, <<RoomAvatar>>, <<RoomTopic>>, <<RoomEncryption, RoomAvatar>>,
     <<RoomTopic, RoomTopic>>, <<RoomTopic, RoomAvatar, RoomEncryption>>}

\* Maps from a subset of the keys to required_state vectors.
RequiredStateMaps(keys) ==
    UNION {[d -> RequiredStateVecs] : d \in SUBSET keys}

\* RequestedRequiredStates::new
RequestedRequiredStates_new(default, for_rooms) ==
    [default |-> default, for_rooms |-> for_rooms]

\* for_room that never looks at the per-room map.
for_room_default_only(requested, room_id) == requested.default

\* RequestedRequiredStates::for_room
for_room(requested, room_id) ==
    IF room_id \in DOMAIN requested.for_rooms
    THEN requested.for_rooms[room_id]
    ELSE requested.default

\* BTreeSet::from_iter of a vector.
from_iter(vec) == {vec[i] : i \in DOMAIN vec}

\* BTreeSet::into_iter().collect(): the elements in ascending order.
RECURSIVE into_iter(_)
into_iter(set) ==
    IF set = {} THEN << >>
    ELSE LET least == CHOOSE x \in set : \A y \in set : x <= y
         IN  <<least>> \o into_iter(set \ {least})

\* impl From<&v5::Request> for RequestedRequiredStates
from_v5_request(request) ==
    LET of_lists == UNION {from_iter(request.lists[l]) : l \in DOMAIN request.lists}
        of_subscriptions ==
            UNION {from_iter(request.room_subscriptions[r]) :
                   r \in DOMAIN request.room_subscriptions}
    IN  [default |-> into_iter(of_lists \cup of_subscriptions), for_rooms |-> EmptyMap]

\* The names of the lists of a v5 request.
ListNames == {"foo", "bar"}

\* One call of for_room on a value: `call` records how the value was built
\* and the room asked for, `ret` the value and the answer.
ForRoomStep(built_from, requested, room_id) ==
    /\ call' = [NoCall EXCEPT !.op = "for_room", !.room = room_id, !.input = built_from]
    /\ ret' = Result("Ok", [requested |-> requested, for_room |-> for_room(requested, room_id)])
    /\ trace' = << >>
    /\ nops' = nops + 1
    /\ UNCHANGED << session_meta, olm_machine, sync_token, rooms, store, event_cache_store,
                    tracked_users, ignore_user_list_changes, sync_lock, tasks >>

ForRoomOfNew ==
    /\ Running
    /\ \E default \in RequiredStateVecs, for_rooms \in RequiredStateMaps({R1}), r \in Rooms :
          ForRoomStep([from |-> "new", default |-> default, for_rooms |-> for_rooms],
                      RequestedRequiredStates_new(default, for_rooms), r)

ForRoomOfV5Request ==
    /\ Running
    /\ \E lists \in RequiredStateMaps(ListNames),
          room_subscriptions \in RequiredStateMaps({R1}), r \in Rooms :
          LET request == [lists |-> lists, room_subscriptions |-> room_subscriptions]
          IN  ForRoomStep([from |-> "v5", request |-> request], from_v5_request(request), r)

RequiredStatesNext ==
    \/ ForRoomOfNew
    \/ ForRoomOfV5Request

RequiredStatesSpec == Init /\ [][RequiredStatesNext]_vars

(***************************************************************************)
(* decrypt_latest_events.  The Room is handed in with its latest_event     *)
(* and its latest_encrypted_events, oldest first; the caller's             *)
(* StateChanges and notable-update reasons are returned as the call left   *)
(* them.                                                                   *)
(***************************************************************************)
NoLatestEvent == [some |-> FALSE, event |-> NewTimelineEvent(Invalid)]

\* LatestEvent::new(event)
LatestEvent(event) == [some |-> TRUE, event |-> event]

\* is_suitable_for_latest_event answers with one of the Yes.. variants; of the
\* events here a room message does, a reaction or an encrypted event does not.
is_suitable_for_latest_event(raw) == raw.type \in {"m.room.message"}

\* A candidate that is taken as soon as it decrypts.
latest_candidate_any_decrypted(s, event) ==
    LET decrypted == decrypt_sync_room_event(s, event)
    IN  IF decrypted.status = "Ok" /\ decrypted.some
        THEN LatestEvent(decrypted.event) ELSE NoLatestEvent

\* One turn of the loop of decrypt_latest_suitable_event: the LatestEvent the
\* encrypted event yields, if it decrypts, deserializes and is suitable.
latest_candidate(s, event) ==
    LET decrypted == decrypt_sync_room_event(s, event)
    IN  IF /\ decrypted.status = "Ok" /\ decrypted.some
           /\ Deserializes(decrypted.event.raw)
           /\ is_suitable_for_latest_event(decrypted.event.raw)
        THEN LatestEvent(decrypted.event)
        ELSE NoLatestEvent

\* decrypt_latest_suitable_event, walking backwards from index i.
RECURSIVE decrypt_latest_suitable_event_from(_, _, _)
decrypt_latest_suitable_event_from(s, enc_events, i) ==
    IF i = 0 THEN [found |-> NoLatestEvent, found_index |-> 0]
    ELSE The({IF found.some THEN [found |-> found, found_index |-> i]
              ELSE decrypt_latest_suitable_event_from(s, enc_events, i - 1) :
              found \in {latest_candidate(s, enc_events[i])}})

\* A walk that starts at the oldest stored encrypted event.
RECURSIVE decrypt_latest_suitable_event_forwards(_, _, _)
decrypt_latest_suitable_event_forwards(s, enc_events, i) ==
    IF i > Len(enc_events) THEN [found |-> NoLatestEvent, found_index |-> 0]
    ELSE The({IF found.some THEN [found |-> found, found_index |-> i]
              ELSE decrypt_latest_suitable_event_forwards(s, enc_events, i + 1) :
              found \in {latest_candidate(s, enc_events[i])}})

decrypt_latest_suitable_event_oldest_first(s, room) ==
    decrypt_latest_suitable_event_forwards(s, room.latest_encrypted_events, 1)

decrypt_latest_suitable_event(s, room) ==
    decrypt_latest_suitable_event_from(s, room.latest_encrypted_events,
                                       Len(room.latest_encrypted_events))

\* Room::on_latest_event_decrypted: the found event becomes the latest event,
\* it and the encrypted events before it leave latest_encrypted_events, the
\* RoomInfo with the latest event goes to the changes, and LATEST_EVENT is
\* recorded for the room.
on_latest_event_decrypted(s, room, found, found_index, changes, room_info_notable_updates) ==
    [room |-> [room EXCEPT !.latest_event = found,
                           !.latest_encrypted_events =
                               SubSeq(@, found_index + 1, Len(@))],
     changes |-> add_room(changes, room.room_id,
                          [latest_event |-> found] @@ s.rooms[room.room_id]),
     room_info_notable_updates |->
         Put(room_info_notable_updates, room.room_id,
             GetOr(room_info_notable_updates, room.room_id, {}) \cup {"LATEST_EVENT"})]

\* decrypt_latest_events
decrypt_latest_events(s, room, changes, room_info_notable_updates) ==
    LET suitable == decrypt_latest_suitable_event(s, room)
    IN  IF suitable.found.some
        THEN on_latest_event_decrypted(s, room, suitable.found, suitable.found_index,
                                       changes, room_info_notable_updates)
        ELSE [room |-> room, changes |-> changes,
              room_info_notable_updates |-> room_info_notable_updates]

\* What try_decrypt_room_event may make of a stored encrypted event.
DecryptionOutcomes ==
    {"decrypts", "decrypts_to_reaction", "decrypts_to_invalid", "utd", "error"}

MaxLatestEncrypted == 2

\* The latest_encrypted_events a Room may hold.
LatestEncryptedInputs ==
    UNION {[1..n -> {Encrypted(o) : o \in DecryptionOutcomes}] : n \in 0..MaxLatestEncrypted}

DecryptLatestEvents ==
    /\ Running
    /\ LoggedIn
    /\ \E room_id \in DOMAIN rooms, enc_events \in LatestEncryptedInputs,
          latest_event \in {NoLatestEvent, LatestEvent(NewTimelineEvent(Message))} :
          LET room == [room_id |-> room_id, latest_event |-> latest_event,
                       latest_encrypted_events |-> enc_events]
          IN  /\ call' = [NoCall EXCEPT !.op = "decrypt_latest_events", !.room = room_id,
                                        !.input = room]
              /\ ret' = Result("Ok",
                     [suitable |-> decrypt_latest_suitable_event(Cur, room)]
                         @@ decrypt_latest_events(Cur, room, NewStateChanges(NoToken),
                                                  EmptyMap))
              /\ trace' = << >>
              /\ nops' = nops + 1
              /\ UNCHANGED << session_meta, olm_machine, sync_token, rooms, store,
                              event_cache_store, tracked_users, ignore_user_list_changes,
                              sync_lock, tasks >>

LatestEventNext ==
    \/ Activate
    \/ DecryptLatestEvents

LatestEventSpec == Init /\ [][LatestEventNext]_vars

(***************************************************************************)
(* Syncs that bring room account data.                                     *)
(***************************************************************************)
\* A room account data event that is neither an unread marker nor a tag.
FullyRead == RoomAccountDataEvent("m.fully_read", FALSE)

InvalidAccountData == RoomAccountDataEvent("invalid", FALSE)

RoomAccountDataShapes ==
    {<< >>, <<FullyRead>>, <<InvalidAccountData>>, <<MarkedUnread(TRUE)>>,
     <<MarkedUnread(FALSE)>>, <<UnstableMarkedUnread(TRUE)>>, <<UnstableMarkedUnread(FALSE)>>,
     <<MarkedUnread(TRUE), UnstableMarkedUnread(FALSE)>>}

UnreadInputs ==
    {[response |-> Response(t, Only(r, WithAccountData(Quiet, events)), EmptyMap, EmptyMap,
                            EmptyMap, NoAccountData),
      requested |-> FALSE, env |-> env] :
        t \in Tokens, r \in Rooms, events \in RoomAccountDataShapes, env \in {OkEnv, SaveFails}}
    \cup {[response |-> Response(t, EmptyMap, Only(r, WithAccountData(Quiet, events)),
                                 EmptyMap, EmptyMap, NoAccountData),
           requested |-> FALSE, env |-> OkEnv] :
             t \in Tokens, r \in Rooms, events \in RoomAccountDataShapes}

SyncUnread ==
    /\ Running
    /\ LoggedIn
    /\ \E in \in UnreadInputs :
          Install(SyncCall(in), receive_sync_response(Cur, in.response, in.requested, in.env))

UnreadNext ==
    \/ Activate
    \/ SyncUnread

UnreadSpec == Init /\ [][UnreadNext]_vars

(***************************************************************************)
(* Calls running side by side.  Tasks are scheduled cooperatively, so a    *)
(* call is cut where it suspends: where it waits for sync_lock, and at     *)
(* save_changes inside the region the lock protects.  What a call does     *)
(* before it asks for the lock is one step, the region up to and           *)
(* including save_changes a second, the rest of the region a third.        *)
(***************************************************************************)
\* A lock that is handed out although a task holds it.
lock_always_ready(lock) == TRUE

\* Mutex::lock returns once no task holds the lock.
lock_ready(lock) == lock = "free"

\* The record of one step of a task in `call` and `ret`.
TaskStep(t, op, room_id, status, begun) ==
    /\ call' = [NoCall EXCEPT !.op = op, !.room = room_id, !.input = t]
    /\ ret' = Result(status, NoResponse)
    /\ trace' = << >>
    /\ nops' = IF begun THEN nops + 1 ELSE nops

\* A call that waits for sync_lock, with what it gathered so far.
Waiting(op, room_id, target, response, env, changes, room_info_notable_updates) ==
    [pc |-> "want_lock", op |-> op, room |-> room_id, target |-> target,
     response |-> response, env |-> env, changes |-> changes,
     room_info_notable_updates |-> room_info_notable_updates,
     prev_ignored_user_list |-> NoAccountData]

\* A gap in the timeline of a room whose state section has the own join.
LimitedOwnJoin == JoinedRoom(<< Member(Alice, Alice, "join", "A") >>, << >>, TRUE, "p2")

ConcurrentSyncInputs ==
    {[response |-> Response(t, sh.join, sh.leave, EmptyMap, EmptyMap, NoAccountData),
      env |-> env] :
        t \in Tokens,
        sh \in {[join |-> Only(R1, Quiet), leave |-> EmptyMap],
                [join |-> EmptyMap, leave |-> Only(R1, Quiet)]},
        env \in {OkEnv, SaveFails}}
    \cup {[response |-> Response(t, Only(R1, LimitedOwnJoin), EmptyMap, EmptyMap, EmptyMap,
                                 NoAccountData),
           env |-> OkEnv] : t \in Tokens}

\* receive_sync_response up to the commit region.
SyncBegin ==
    /\ Running
    /\ LoggedIn
    /\ \E t \in TaskIds, in \in ConcurrentSyncInputs :
          /\ tasks[t] = Idle
          /\ IF SameSyncToken(Cur, in.response)
             THEN /\ TaskStep(t, "receive_sync_response", "", "Ok", TRUE)
                  /\ UNCHANGED << rooms, tracked_users, tasks >>
             ELSE \E s2 \in {sync_before_commit(Cur, in.response, FALSE, in.env)} :
                     /\ rooms' = s2.rooms
                     /\ tracked_users' = s2.tracked_users
                     /\ tasks' = [tasks EXCEPT ![t] =
                                     IF s2.ret.status # "none" THEN Idle
                                     ELSE Waiting("receive_sync_response", "", "",
                                                  in.response, in.env,
                                                  [s2.changes EXCEPT
                                                      !.ignored_user_list =
                                                          in.response.ignored_user_list,
                                                      !.push_rules = in.response.push_rules],
                                                  s2.room_info_notable_updates)]
                     /\ TaskStep(t, "receive_sync_response", "", s2.ret.status, TRUE)
          /\ UNCHANGED << session_meta, olm_machine, sync_token, store, event_cache_store,
                          ignore_user_list_changes, sync_lock >>

\* room_knocked, room_joined, room_left up to the region: the Room is looked
\* up or created, and the call returns if it is in the target state.
RoomBegin ==
    /\ Running
    /\ LoggedIn
    /\ \E t \in TaskIds, target \in {"Knocked", "Joined", "Left"}, env \in {OkEnv, SaveFails} :
          /\ tasks[t] = Idle
          /\ rooms' = get_or_create_room(rooms, R1, target)
          /\ tasks' = [tasks EXCEPT ![t] =
                          IF rooms'[R1].state = target THEN Idle
                          ELSE Waiting("room_state", R1, target, "", env,
                                       NewStateChanges(NoToken), EmptyMap)]
          /\ TaskStep(t, "room_state", R1, IF rooms'[R1].state = target THEN "Ok" ELSE "none",
                      TRUE)
          /\ UNCHANGED << session_meta, olm_machine, sync_token, store, event_cache_store,
                          tracked_users, ignore_user_list_changes, sync_lock >>

\* receive_all_members of an unfiltered request up to the region.
MembersBegin ==
    /\ Running
    /\ LoggedIn
    /\ \E t \in TaskIds, chunk \in {InvitedAlice}, env \in {OkEnv} :
          /\ tasks[t] = Idle
          /\ IF R1 \notin DOMAIN rooms
             THEN /\ TaskStep(t, "receive_all_members", R1, "Ok", TRUE)
                  /\ UNCHANGED << tracked_users, tasks >>
             ELSE \E loop \in {members_chunk_from(chunk, 1, R1,
                                   [changes |-> NewStateChanges(NoToken), user_ids |-> {}])} :
                     /\ tracked_users' = IF is_encrypted(rooms[R1]) /\ olm_machine
                                         THEN tracked_users \cup loop.user_ids
                                         ELSE tracked_users
                     /\ tasks' = [tasks EXCEPT ![t] =
                                     Waiting("receive_all_members", R1, "", "", env,
                                             loop.changes, EmptyMap)]
                     /\ TaskStep(t, "receive_all_members", R1, "none", TRUE)
          /\ UNCHANGED << session_meta, olm_machine, sync_token, rooms, store,
                          event_cache_store, ignore_user_list_changes, sync_lock >>

\* A sync that takes over, under the lock, what the Room says of its members.
changes_under_lock_merging(task, known) ==
    CASE task.op = "room_state" ->
             add_room(task.changes, task.room,
                      mark_members_missing(
                          mark_state_partially_synced(mark_as(known[task.room], task.target))))
      [] task.op = "receive_all_members" ->
             add_room(task.changes, task.room, mark_members_synced(known[task.room]))
      [] OTHER ->
             [task.changes EXCEPT
                 !.room_infos = [r \in DOMAIN @ |->
                                    IF r \in DOMAIN known
                                    THEN [@[r] EXCEPT !.members_sync = known[r].members_sync]
                                    ELSE @[r]]]

\* The StateChanges a call saves, completed under the lock: the room calls and
\* receive_all_members clone the Room's RoomInfo only now.
changes_under_lock(task, known) ==
    CASE task.op = "room_state" ->
             add_room(task.changes, task.room,
                      mark_members_missing(
                          mark_state_partially_synced(mark_as(known[task.room], task.target))))
      [] task.op = "receive_all_members" ->
             add_room(task.changes, task.room, mark_members_synced(known[task.room]))
      [] OTHER -> task.changes

\* The region from the lock to save_changes.  A save that fails ends the call
\* and the guard of the lock is dropped.
LockAndSave ==
    \E t \in TaskIds :
       /\ tasks[t].pc = "want_lock"
       /\ lock_ready(sync_lock)
       /\ \E task \in {tasks[t]} :
             IF ~task.env.save_ok
             THEN /\ tasks' = [tasks EXCEPT ![t] = Idle]
                  /\ TaskStep(t, "save_changes", task.room, "StoreError", FALSE)
                  /\ UNCHANGED << store, sync_lock >>
             ELSE \E changes \in {changes_under_lock(task, rooms)} :
                     /\ store' = save_changes(store, changes)
                     /\ sync_lock' = t
                     /\ tasks' = [tasks EXCEPT ![t] =
                                     [task EXCEPT !.pc = "saved", !.changes = changes,
                                                  !.prev_ignored_user_list =
                                                      load_previous_ignored_user_list(
                                                          store, task.env.read_ok)]]
                     /\ TaskStep(t, "save_changes", task.room, "none", FALSE)
       /\ UNCHANGED << session_meta, olm_machine, sync_token, rooms, event_cache_store,
                       tracked_users, ignore_user_list_changes >>

\* The rest of the region: the sync token of a sync, the RoomInfos and the
\* ignored-user list in memory; then the lock is released.
ApplyAndUnlock ==
    \E t \in TaskIds :
       /\ tasks[t].pc = "saved"
       /\ \E task \in {tasks[t]} :
          \E s3 \in {IF task.op = "room_state"
                     THEN [Cur EXCEPT !.rooms = Put(@, task.room,
                                                    task.changes.room_infos[task.room])]
                     ELSE apply_changes(Cur, task.changes, task.room_info_notable_updates,
                                        task.prev_ignored_user_list)} :
             /\ rooms' = s3.rooms
             /\ ignore_user_list_changes' = s3.ignore_user_list_changes
             /\ sync_token' = IF task.op = "receive_sync_response"
                              THEN task.response.next_batch ELSE sync_token
             /\ TaskStep(t, "apply_changes", task.room, "Ok", FALSE)
       /\ sync_lock' = "free"
       /\ tasks' = [tasks EXCEPT ![t] = Idle]
       /\ UNCHANGED << session_meta, olm_machine, store, event_cache_store, tracked_users >>

\* forget_room takes no lock.  It is not run on a room that a waiting room
\* call or receive_all_members holds.
ConcurrentForgetRoom ==
    /\ Running
    /\ \A t \in TaskIds : IF tasks[t] = Idle THEN TRUE ELSE tasks[t].room # R1
    /\ Install(RoomCall("forget_room", R1, "ok"), forget_room(Cur, R1, "ok"))

\* The client once activate has returned Ok.
ConcurrentInit ==
    \E st \in InitialStores :
       \E a \in {activate(Fresh(st), Alice, "ok")} :
          /\ store = a.store
          /\ session_meta = a.session_meta
          /\ olm_machine = a.olm_machine
          /\ sync_token = a.sync_token
          /\ rooms = a.rooms
          /\ event_cache_store = a.event_cache_store
          /\ tracked_users = IF st = PersistedStore THEN PersistedTrackedUsers ELSE {}
          /\ ignore_user_list_changes = a.ignore_user_list_changes
          /\ call = NoCall
          /\ ret = Result("none", NoResponse)
          /\ trace = << >>
          /\ nops = 0
          /\ sync_lock = "free"
          /\ tasks = [t \in TaskIds |-> Idle]

ConcurrentNext ==
    \/ SyncBegin
    \/ RoomBegin
    \/ MembersBegin
    \/ LockAndSave
    \/ ApplyAndUnlock
    \/ ConcurrentForgetRoom

ConcurrentSpec == ConcurrentInit /\ [][ConcurrentNext]_vars

(***************************************************************************)
(* Properties.  A step of the latest call is recognised by the counter of  *)
(* calls; `trace` lists what that call did, in order.                      *)
(***************************************************************************)
Called(op) == nops' = nops + 1 /\ call'.op = op

\* The client's state apart from the record of the latest call.
ClientUnchanged ==
    UNCHANGED << session_meta, olm_machine, sync_token, rooms, store, event_cache_store,
                 tracked_users, ignore_user_list_changes >>

Positions(tr, k) == {i \in DOMAIN tr : tr[i].k = k}

Did(tr, k) == Positions(tr, k) # {}

DidWith(tr, k, what) == \E i \in Positions(tr, k) : tr[i].what = what

\* The latest call was a receive_sync_response that got past the replay guard.
SyncProcessed == call.op = "receive_sync_response" /\ trace # << >>

\* C1: a receive_sync_response, with or without requested required states,
\* whose next_batch equals the sync_token held at entry returns the empty
\* response and does nothing else: no crypto call, no store access, no lock,
\* no notification, no change of the client.
C1_ReplayGuard ==
    [][ (Called("receive_sync_response") /\ call'.next_batch = sync_token)
            => /\ ret' = Result("Ok", NoResponse)
               /\ trace' = << >>
               /\ ClientUnchanged ]_vars

\* A replayed response that mentions a room, given to a client with an OlmMachine.
C1_Witness ==
    /\ call.op = "receive_sync_response"
    /\ call.next_batch = sync_token
    /\ trace = << >>
    /\ ret = Result("Ok", NoResponse)
    /\ olm_machine
    /\ MentionedRooms(call.input) # {}

\* C2: when save_changes fails in the commit of a sync, the call returns the
\* error, sync_token and the store keep their values, no Room's RoomInfo is
\* replaced, the ignored-user observers and the member-update channels get
\* nothing, and the same response given again is processed in full.
C2_SaveFailure ==
    [][ /\ (Called("receive_sync_response") /\ call'.next_batch # sync_token
                /\ ~call'.env.save_ok)
            => /\ ret' = Result("StoreError", NoResponse)
               /\ sync_token' = sync_token
               /\ store' = store
               /\ \A r \in DOMAIN rooms : r \in DOMAIN rooms' /\ rooms'[r] = rooms[r]
               /\ ignore_user_list_changes' = ignore_user_list_changes
               /\ ~Did(trace', "set_sync_token")
               /\ ~Did(trace', "set_room_info")
               /\ ~Did(trace', "ignore_user_list_changes")
               /\ ~Did(trace', "room_member_updates")
               /\ DidWith(trace', "save_changes", "error")
        /\ (Called("receive_sync_response") /\ call.op = "receive_sync_response"
                /\ ret.status = "StoreError" /\ call'.input = call.input
                /\ call'.env.save_ok)
            => /\ ret'.status = "Ok"
               /\ ret'.response.join = DOMAIN call'.input.join
               /\ DidWith(trace', "save_changes", "ok")
               /\ sync_token' = call'.next_batch
               /\ \A r \in MentionedRooms(call'.input) :
                     \E i \in Positions(trace', "set_room_info") : trace'[i].room = r ]_vars

\* A failed commit of a response that created a Room the store never got.
C2_Witness ==
    /\ call.op = "receive_sync_response"
    /\ ret.status = "StoreError"
    /\ R1 \in DOMAIN rooms
    /\ R1 \notin DOMAIN store.room_infos
    /\ sync_token # call.next_batch

\* The step is a sync whose commit saved the changes and then set the token.
TokenSetByCommit ==
    /\ Called("receive_sync_response")
    /\ call'.env.save_ok
    /\ sync_token' = call'.next_batch
    /\ \E i \in Positions(trace', "save_changes") :
          /\ trace'[i].what = "ok"
          /\ \E j \in Positions(trace', "set_sync_token") : i < j
    /\ \E i \in Positions(trace', "lock") :
          \E j \in Positions(trace', "set_sync_token") :
             \E k \in Positions(trace', "unlock") : i < j /\ j < k

\* The step is an activation that loaded the token the store holds.
TokenLoadedByActivate ==
    /\ Called("activate")
    /\ sync_token' = store.sync_token

\* The same response given again right after the call that committed it.
ReplayedRightAfterSuccess ==
    /\ Called("receive_sync_response")
    /\ call.op = "receive_sync_response"
    /\ ret.status = "Ok"
    /\ call'.input = call.input

\* C3 as the specification states it: sync_token changes only in the commit
\* of a sync whose save_changes succeeded.
C3_Original ==
    [][ sync_token' # sync_token => TokenSetByCommit ]_vars

\* C3, amended: sync_token changes only when activate loads the persisted
\* token or in the commit of a sync, under sync_lock, after save_changes
\* succeeded; a response replayed right after its successful call is a no-op.
C3_TokenChanges ==
    [][ /\ sync_token' # sync_token => (TokenSetByCommit \/ TokenLoadedByActivate)
        /\ ReplayedRightAfterSuccess
            => /\ ret' = Result("Ok", NoResponse)
               /\ trace' = << >>
               /\ ClientUnchanged ]_vars

\* A commit that moved the token of a client that had loaded another one.
C3_Witness ==
    /\ SyncProcessed
    /\ ret.status = "Ok"
    /\ sync_token = "t2"
    /\ store.sync_token = "t2"
    /\ DidWith(trace, "set_sync_token", "t2")

\* The state a bucket of the sync response leaves a room in.
BucketState(response, room_id) ==
    IF room_id \in DOMAIN response.knock THEN "Knocked"
    ELSE IF room_id \in DOMAIN response.invite THEN "Invited"
    ELSE IF room_id \in DOMAIN response.leave THEN "Left"
    ELSE "Joined"

\* C4: after a sync commits, every room it mentions has the state of its
\* bucket (of the last one processed, in the order join, leave, invite,
\* knock), in the Room and in the store, whatever membership events of the
\* own user the response carries.
C4_BucketDecidesState ==
    (SyncProcessed /\ ret.status = "Ok")
        => \A r \in MentionedRooms(call.input) :
              /\ r \in DOMAIN rooms
              /\ rooms[r].state = BucketState(call.input, r)
              /\ r \in DOMAIN store.room_infos
              /\ store.room_infos[r].state = BucketState(call.input, r)

\* A committed leave bucket whose state carries the own user's join.
C4_Witness ==
    /\ SyncProcessed
    /\ ret.status = "Ok"
    /\ R1 \in DOMAIN call.input.leave
    /\ call.input.leave[R1] = OwnJoin
    /\ rooms[R1].state = "Left"
    /\ << "m.room.member", Alice >> \in DOMAIN store.state[R1]
    /\ store.state[R1][<< "m.room.member", Alice >>].membership = "join"

\* The previous ignored-user list cannot be read from the store.
PreviousUnreadable(st, env) ==
    ~env.read_ok \/ ~st.ignored_user_list.present \/ ~st.ignored_user_list.valid

\* C5: in the commit of a sync that carries an m.ignored_user_list event the
\* observers are given the new list exactly when the previous list cannot be
\* read (store error, none stored, not deserializable) or its set of users
\* differs from the new one; a commit without such an event gives them nothing.
C5_IgnoredUserListObservers ==
    [][ (Called("receive_sync_response") /\ call'.next_batch # sync_token)
            => LET new == call'.input.ignored_user_list
                   carried == new.present /\ new.valid /\ call'.env.save_ok
                   notified == Did(trace', "ignore_user_list_changes")
               IN  /\ carried =>
                         (notified <=> (PreviousUnreadable(store, call'.env)
                                            \/ new.users # store.ignored_user_list.users))
                   /\ ~carried => ~notified
                   /\ notified => ignore_user_list_changes' = new.users
                   /\ ~notified => ignore_user_list_changes' = ignore_user_list_changes ]_vars

\* A committed sync that carried the list the store already held: nothing fired.
C5_Witness ==
    /\ SyncProcessed
    /\ ret.status = "Ok"
    /\ call.input.ignored_user_list = IgnoredUserList({Bob})
    /\ call.env.read_ok
    /\ store.ignored_user_list = IgnoredUserList({Bob})
    /\ ~Did(trace, "ignore_user_list_changes")

\* C6: receive_all_members on a request with a membership filter, a
\* not_membership filter or an `at` token fails with
\* InvalidReceiveMembersParameters before it reads or writes anything.
C6_FilteredRequestRejected ==
    [][ (Called("receive_all_members")
            /\ \E f \in {"membership", "not_membership", "at"} : call'.input[1][f])
            => /\ ret' = Result("InvalidReceiveMembersParameters", NoResponse)
               /\ trace' = << >>
               /\ ClientUnchanged ]_vars

\* A rejected request with an `at` token for a room the client knows.
C6_Witness ==
    /\ call.op = "receive_all_members"
    /\ ret.status = "InvalidReceiveMembersParameters"
    /\ call.input[1].at
    /\ call.room \in DOMAIN rooms

\* The member event a chunk leaves for a user: the last deserializable one.
IsLastFor(chunk, j) ==
    /\ Deserializes(chunk[j])
    /\ \A k \in DOMAIN chunk :
          (k > j /\ Deserializes(chunk[k])) => chunk[k].state_key # chunk[j].state_key

\* Room::get_member(..).display_name(): the profile's name, else the event's.
get_member_display_name(st, room_id, user_id) ==
    IF room_id \in DOMAIN st.profiles /\ user_id \in DOMAIN st.profiles[room_id]
    THEN st.profiles[room_id][user_id].displayname
    ELSE st.state[room_id][<< "m.room.member", user_id >>].displayname

\* C7: receive_all_members for a known room and an unfiltered request writes
\* every deserializable member event of the chunk, whatever its membership,
\* so that a member who is only invited is returned with the display name of
\* the event; under sync_lock it commits members_sync_status = Synced, and
\* after the commit it sends exactly one RoomMembersUpdate::FullReload.
C7_AllMembersWritten ==
    (call.op = "receive_all_members" /\ ret.status = "Ok" /\ trace # << >>)
        => LET r == call.room
               chunk == call.input[2]
           IN  /\ r \in DOMAIN store.state
               /\ \A j \in DOMAIN chunk :
                     IsLastFor(chunk, j) =>
                        /\ StateKeyOf(chunk[j]) \in DOMAIN store.state[r]
                        /\ store.state[r][StateKeyOf(chunk[j])] = chunk[j]
                        /\ chunk[j].membership = "invite" =>
                              get_member_display_name(store, r, chunk[j].state_key)
                                  = chunk[j].displayname
               /\ rooms[r].members_sync = "Synced"
               /\ store.room_infos[r].members_sync = "Synced"
               /\ Cardinality(Positions(trace, "room_member_updates")) = 1
               /\ \E l \in Positions(trace, "lock") :
                     \E sv \in Positions(trace, "save_changes") :
                        \E i \in Positions(trace, "set_room_info") :
                           \E m \in Positions(trace, "room_member_updates") :
                              /\ l < sv /\ sv < i /\ i < m
                              /\ trace[sv].what = "ok"
                              /\ trace[i].room = r
                              /\ trace[m].room = r
                              /\ trace[m].what = "FullReload"

\* The members of a room that was synced with a joined Alice are received, and
\* Alice is now only invited.
C7_Witness ==
    /\ call.op = "receive_all_members"
    /\ ret.status = "Ok"
    /\ call.input[2] = InvitedAlice
    /\ call.room \in DOMAIN rooms
    /\ store.state[call.room][<< "m.room.member", Alice >>].membership = "invite"
    /\ get_member_display_name(store, call.room, Alice) = "Invited Alice"
    /\ rooms[call.room].members_sync = "Synced"

RoomOps == {"room_joined", "room_left", "room_knocked"}

TargetOf(op) ==
    IF op = "room_joined" THEN "Joined" ELSE IF op = "room_left" THEN "Left" ELSE "Knocked"

\* C8: room_joined, room_left and room_knocked on a room in another state
\* take sync_lock, persist a RoomInfo in the target state marked partially
\* synced with members missing, and only then replace the Room's RoomInfo
\* with a MEMBERSHIP notable update; if save_changes fails the Room keeps its
\* RoomInfo; a room already in the target state is neither saved nor broadcast.
C8_RoomStateSetters ==
    [][ (nops' = nops + 1 /\ call'.op \in RoomOps /\ call'.room \in DOMAIN rooms)
            => LET r == call'.room
                   target == TargetOf(call'.op)
                   room_info == [rooms[r] EXCEPT !.state = target,
                                                 !.state_sync = "Partial",
                                                 !.members_sync = "Missing"]
               IN  IF rooms[r].state = target
                   THEN /\ ret'.status = "Ok"
                        /\ trace' = << >>
                        /\ ClientUnchanged
                   ELSE IF call'.env
                   THEN /\ ret'.status = "Ok"
                        /\ store'.room_infos[r] = room_info
                        /\ rooms' = [rooms EXCEPT ![r] = room_info]
                        /\ trace' = << T("lock", "", {}, "sync_lock"),
                                       T("save_changes", "", {}, "ok"),
                                       T("set_room_info", r, {"MEMBERSHIP"}, ""),
                                       T("unlock", "", {}, "sync_lock") >>
                   ELSE /\ ret'.status = "StoreError"
                        /\ ClientUnchanged
                        /\ ~Did(trace', "set_room_info") ]_vars

\* A joined room was marked as left, and a failed room_knocked left it so.
C8_Witness ==
    /\ call.op = "room_knocked"
    /\ ret.status = "StoreError"
    /\ call.room \in DOMAIN rooms
    /\ rooms[call.room].state = "Left"
    /\ rooms[call.room].members_sync = "Missing"
    /\ store.room_infos[call.room] = rooms[call.room]

\* The room is gone from the state store.
ForgottenByStateStore(st, room_id) ==
    /\ room_id \notin DOMAIN st.room_infos
    /\ room_id \notin DOMAIN st.state
    /\ room_id \notin DOMAIN st.stripped_state
    /\ room_id \notin DOMAIN st.profiles

\* C9: forget_room removes the room from the state store first and from the
\* event cache store only after that succeeded; a failure of the state store
\* leaves the event cache untouched; the call is Ok only if both removals
\* succeeded, and then the room is in neither store.
C9_ForgetRoom ==
    [][ Called("forget_room")
            => LET r == call'.room
                   outcome == call'.env
               IN  /\ ret'.status = "Ok" <=> outcome = "ok"
                   /\ ret'.status = "Ok"
                         => /\ ForgottenByStateStore(store', r)
                            /\ r \notin DOMAIN rooms'
                            /\ r \notin event_cache_store'
                            /\ \E i \in Positions(trace', "forget_room") :
                                  \A j \in Positions(trace', "event_cache_lock")
                                             \cup Positions(trace', "event_cache_remove_room") :
                                     i < j /\ trace'[i].what = "ok"
                            /\ DidWith(trace', "event_cache_remove_room", "ok")
                   /\ outcome = "state_store_error"
                         => /\ ClientUnchanged
                            /\ ~Did(trace', "event_cache_lock")
                            /\ ~Did(trace', "event_cache_remove_room")
                   /\ outcome \in {"lock_error", "remove_error"}
                         => /\ event_cache_store' = event_cache_store
                            /\ ForgottenByStateStore(store', r) ]_vars

\* A synced room was forgotten while the other one stays known.
C9_Witness ==
    /\ call.op = "forget_room"
    /\ ret.status = "Ok"
    /\ call.room = R1
    /\ R1 \notin DOMAIN rooms
    /\ R1 \notin event_cache_store
    /\ R2 \in DOMAIN rooms

\* The users of a room whose member event has one of the memberships.
MembersWith(st, room_id, memberships) ==
    {u \in Users : /\ room_id \in DOMAIN st.state
                   /\ << "m.room.member", u >> \in DOMAIN st.state[room_id]
                   /\ st.state[room_id][<< "m.room.member", u >>].membership \in memberships}

\* C10: share_room_key fails with InsufficientData for an unknown room and
\* with EncryptionNotEnabled for a room that is not encrypted; otherwise it
\* shares the key with the joined and invited members, except that invited
\* members are left out when the history visibility is Joined; without an
\* OlmMachine the call panics.
C10_ShareRoomKey ==
    call.op = "share_room_key"
        => LET r == call.room IN
           IF ~olm_machine THEN ret.status = "Panic" /\ trace = << >>
           ELSE IF r \notin DOMAIN rooms THEN ret.status = "InsufficientData" /\ trace = << >>
           ELSE IF ~rooms[r].encryption
           THEN ret.status = "EncryptionNotEnabled" /\ trace = << >>
           ELSE /\ ret.status = "Ok"
                /\ Cardinality(Positions(trace, "crypto")) = 1
                /\ \A i \in Positions(trace, "crypto") :
                      /\ trace[i].what = "share_room_key"
                      /\ trace[i].room = r
                      /\ trace[i].users =
                            IF rooms[r].history_visibility = "joined"
                            THEN MembersWith(store, r, {"join"})
                            ELSE MembersWith(store, r, {"join", "invite"})

\* A key shared in a room visible to joined members only, that has an invited member.
C10_Witness ==
    /\ call.op = "share_room_key"
    /\ ret.status = "Ok"
    /\ rooms[call.room].history_visibility = "joined"
    /\ MembersWith(store, call.room, {"invite"}) = {Bob}
    /\ \E i \in Positions(trace, "crypto") : trace[i].users = {Alice}

\* The position of the last element of a non-empty set of positions.
LastOf(S) == CHOOSE i \in S : \A j \in S : j <= i

MemberPositions(events, user_id) ==
    {i \in DOMAIN events : events[i].type = "m.room.member" /\ events[i].state_key = user_id}

\* The user_ids a joined room's batch yields: joined or invited by the last
\* member event of the timeline, else by a member event of the state section.
BatchUserIds(new_info) ==
    {u \in Users :
        IF MemberPositions(new_info.timeline, u) # {}
        THEN new_info.timeline[LastOf(MemberPositions(new_info.timeline, u))].membership
                \in {"join", "invite"}
        ELSE \E i \in MemberPositions(new_info.state, u) :
                new_info.state[i].membership \in {"join", "invite"}}

CarriesEncryption(new_info) ==
    \/ \E i \in DOMAIN new_info.state : new_info.state[i].type = "m.room.encryption"
    \/ \E i \in DOMAIN new_info.timeline : new_info.timeline[i].type = "m.room.encryption"

\* The users of the update_tracked_users calls made for a room, in order.
RECURSIVE TrackingCalls(_, _, _)
TrackingCalls(tr, room_id, i) ==
    IF i > Len(tr) THEN << >>
    ELSE (IF tr[i].k = "crypto" /\ tr[i].what = "update_tracked_users" /\ tr[i].room = room_id
          THEN << tr[i].users >> ELSE << >>) \o TrackingCalls(tr, room_id, i + 1)

\* C11: when the RoomInfo of a joined room is encrypted after its batch and an
\* OlmMachine is present, update_tracked_users is called before save_changes:
\* first, only if the Room was not encrypted before the sync, with the ACTIVE
\* members the store knows, then always with the user_ids of the batch.
C11_TrackedBeforeCommit ==
    [][ (Called("receive_sync_response") /\ call'.next_batch # sync_token)
            => \A r \in DOMAIN call'.input.join :
                  LET new_info == call'.input.join[r]
                      was == r \in DOMAIN rooms /\ rooms[r].encryption
                      now == was \/ CarriesEncryption(new_info)
                      known == {u \in Users :
                                   /\ r \in DOMAIN store.state
                                   /\ << "m.room.member", u >> \in DOMAIN store.state[r]
                                   /\ store.state[r][<< "m.room.member", u >>].membership
                                         \in {"join", "invite"}}
                  IN  IF now /\ olm_machine
                      THEN /\ TrackingCalls(trace', r, 1)
                                = (IF was THEN << >> ELSE << known >>)
                                      \o << BatchUserIds(new_info) >>
                           /\ \A i \in Positions(trace', "crypto") :
                                 \A j \in Positions(trace', "save_changes") :
                                    trace'[i].what = "update_tracked_users" => i < j
                           /\ ~was => known \subseteq tracked_users'
                      ELSE TrackingCalls(trace', r, 1) = << >> ]_vars

\* Encryption arrived in the timeline of a room whose store-known member is
\* another user than the one of the batch.
C11_Witness ==
    /\ SyncProcessed
    /\ ret.status = "Ok"
    /\ R1 \in DOMAIN call.input.join
    /\ TrackingCalls(trace, R1, 1) = << {Alice}, {Bob} >>

\* C12: whenever share_room_key is invoked for an encrypted room, every ACTIVE
\* (joined or invited) member of the room the store knows has been passed to
\* update_tracked_users before.
C12_TrackedBeforeShare ==
    (call.op = "share_room_key" /\ olm_machine /\ call.room \in DOMAIN rooms
        /\ rooms[call.room].encryption)
        => MembersWith(store, call.room, {"join", "invite"}) \subseteq tracked_users

\* The room is in the join bucket of the response and in no other bucket.
JoinedOnly(response, room_id) ==
    /\ room_id \in DOMAIN response.join
    /\ room_id \notin (DOMAIN response.leave) \cup (DOMAIN response.invite)
                         \cup (DOMAIN response.knock)

Range(seq) == {seq[i] : i \in DOMAIN seq}

\* The m.room.member events the latest call processed, each with its room:
\* those of the state section and of the timeline of the join and leave
\* buckets of a sync, or those of the chunk of a /members response.
MemberEventsOf(room) ==
    {x \in Range(room.state) \cup Range(room.timeline) : x.type = "m.room.member"}

ProcessedMemberEvents ==
    IF SyncProcessed
    THEN UNION ({{<< r, e >> : e \in MemberEventsOf(call.input.join[r])} :
                    r \in DOMAIN call.input.join}
                \cup {{<< r, e >> : e \in MemberEventsOf(call.input.leave[r])} :
                         r \in DOMAIN call.input.leave})
    ELSE IF call.op = "receive_all_members" /\ trace # << >>
    THEN {<< call.room, e >> : e \in {x \in Range(call.input[2]) : x.type = "m.room.member"}}
    ELSE {}

\* C14: a member event is recorded as a profile only when its state_key is
\* its sender, and then under that user; the content of an event a third party
\* sent (kick, ban, invite) never becomes anyone's profile, in a change set or
\* in the store.
C14_ProfilesAreSelfDeclared ==
    /\ \A p \in ProcessedMemberEvents :
          LET r == p[1]
              e == p[2]
              changes == handle_room_member_event_for_profiles(r, e, NewStateChanges(NoToken))
          IN  IF e.state_key = e.sender
              THEN /\ DOMAIN changes.profiles = {r}
                   /\ DOMAIN changes.profiles[r] = {e.sender}
                   /\ changes.profiles[r][e.sender] = e
              ELSE DOMAIN changes.profiles = {}
    /\ \A r \in DOMAIN store.profiles :
          \A u \in DOMAIN store.profiles[r] :
             /\ store.profiles[r][u].state_key = u
             /\ store.profiles[r][u].sender = u

\* Bob left by himself and was then banned by Alice with another display
\* name: the profile is still the one Bob declared.
C14_Witness ==
    /\ call.op = "receive_all_members"
    /\ ret.status = "Ok"
    /\ call.room \in DOMAIN store.state
    /\ << "m.room.member", Bob >> \in DOMAIN store.state[call.room]
    /\ store.state[call.room][<< "m.room.member", Bob >>].sender = Alice
    /\ store.state[call.room][<< "m.room.member", Bob >>].displayname = "X"
    /\ store.profiles[call.room][Bob].displayname = "B"

\* The member events of a batch that concern a user, in processing order.
MemberEventsFor(events, user_id) ==
    SelectSeq(events, LAMBDA e : e.type = "m.room.member" /\ e.state_key = user_id)

\* What the latest call processed for a room, when one bucket or one chunk did.
ProcessedBatch(room_id) ==
    IF SyncProcessed /\ JoinedOnly(call.input, room_id)
    THEN call.input.join[room_id].state \o call.input.join[room_id].timeline
    ELSE IF call.op = "receive_all_members" /\ trace # << >> /\ call.room = room_id
    THEN call.input[2]
    ELSE << >>

\* C15: every member event with membership invite puts its state_key into
\* profiles_to_delete of its room; so a user whose last event of a committed
\* batch is an invitation by someone else, and who declared no profile in
\* that batch, reads back with the display name of the invitation, not with
\* an older (empty) profile.
C15_InviteDeletesProfile ==
    /\ \A p \in ProcessedMemberEvents :
          p[2].membership = "invite"
             => LET changes == handle_room_member_event_for_profiles(
                                   p[1], p[2], NewStateChanges(NoToken))
                IN  /\ p[1] \in DOMAIN changes.profiles_to_delete
                    /\ p[2].state_key \in changes.profiles_to_delete[p[1]]
    /\ ret.status = "Ok"
          => \A r \in Rooms, u \in Users :
                LET events == MemberEventsFor(ProcessedBatch(r), u)
                IN  (/\ events # << >>
                     /\ events[Len(events)].membership = "invite"
                     /\ \A i \in DOMAIN events : events[i].sender # u)
                       => get_member_display_name(store, r, u)
                              = events[Len(events)].displayname

\* Alice left with an empty display name in one sync and is then re-invited
\* by Bob as "Invited Alice".
C15_Witness ==
    /\ call.op = "receive_all_members"
    /\ ret.status = "Ok"
    /\ call.input[2] = InvitedAlice
    /\ call.room \in DOMAIN rooms
    /\ << "m.room.name", "" >> \in DOMAIN store.state[call.room]
    /\ rooms[call.room].state = "Joined"
    /\ ~rooms[call.room].encryption
    /\ get_member_display_name(store, call.room, Alice) = "Invited Alice"

StateEventTypes ==
    {"m.room.member", "m.room.encryption", "m.room.history_visibility", "m.room.name"}

\* The position holds the last state event of the batch for its type and state key.
IsLastStateEvent(events, i) ==
    /\ events[i].type \in StateEventTypes
    /\ \A j \in DOMAIN events :
          j > i => << events[j].type, events[j].state_key >>
                       # << events[i].type, events[i].state_key >>

BucketsOf(response, room_id) ==
    {b \in {"join", "leave", "invite", "knock"} : room_id \in DOMAIN response[b]}

C20_SessionSetOnce ==
    /\ session_meta = NoSession
    /\ [][ /\ session_meta # NoSession => session_meta' = session_meta
           /\ session_meta' # session_meta
                 => (Called("activate") /\ session_meta' = call'.input)
           /\ (Called("activate") /\ session_meta # NoSession) => ret'.status # "Ok"
           /\ (Called("activate") /\ ret'.status = "Ok")
                 => (~is_active([session_meta |-> session_meta])
                        /\ is_active([session_meta |-> session_meta'])) ]_vars

\* An active client of Alice was asked to activate for Bob.
C20_Witness ==
    /\ call.op = "activate"
    /\ call.input = Bob
    /\ ret.status # "Ok"
    /\ session_meta = Alice
    /\ nops > 1

\* The sync of the latest call went through all its rooms and was committed.
SyncReturned == call.op = "receive_sync_response" /\ ret.status = "Ok"

\* The TimelineEvent the engine owes for the raw event `raw`.
IsEventFor(event, raw) ==
    CASE raw.type = "invalid" ->
             event.kind = "PlainText" /\ event.raw = raw /\ ~event.push_actions.some
      [] raw.type = "m.room.encrypted" /\ olm_machine /\ raw.value = "decrypts" ->
             event.kind = "Decrypted" /\ event.raw = [raw EXCEPT !.type = "m.room.message"]
      [] raw.type = "m.room.encrypted" /\ olm_machine /\ raw.value = "utd" ->
             event.kind = "UnableToDecrypt" /\ event.raw = raw
      [] OTHER -> event.kind = "PlainText" /\ event.raw = raw

\* C16: the Timeline a sync returns for a joined or left room holds exactly
\* one TimelineEvent per raw event of the room's timeline, in input order: an
\* event that fails to deserialize is there as an unchanged plaintext
\* wrapper, an encrypted event is replaced in place by its decrypted or its
\* undecryptable form, every other event is wrapped as it came; nothing is
\* dropped, duplicated or reordered.
C16_OneTimelineEventPerRawEvent ==
    SyncReturned =>
        \A b \in {"join", "leave"} :
            \A r \in DOMAIN ret.response.timeline[b] :
                LET events == call.input[b][r].timeline
                    timeline == ret.response.timeline[b][r]
                IN  /\ Len(timeline) = Len(events)
                    /\ \A k \in 1..Len(events) : IsEventFor(timeline[k], events[k])

C16_Witness ==
    /\ SyncReturned
    /\ olm_machine
    /\ R1 \in DOMAIN ret.response.timeline.join
    /\ call.input.join[R1].timeline = MixedTimeline
    /\ Len(ret.response.timeline.join[R1]) = 5
    /\ ret.response.timeline.join[R1][3].kind = "Decrypted"

\* The raw timeline events of a response, as (bucket, room, position).
TimelinePositions(response) ==
    UNION {UNION {{<< b, r, k >> : k \in 1..Len(response[b][r].timeline)} :
                     r \in DOMAIN response[b]} : b \in {"join", "leave"}}

EncryptedPositions(response) ==
    {p \in TimelinePositions(response) :
        response[p[1]][p[2]].timeline[p[3]].type = "m.room.encrypted"}

\* The OlmMachine fails with an error on one of the encrypted events.
CryptoFails(response) ==
    /\ olm_machine
    /\ \E p \in EncryptedPositions(response) :
          response[p[1]][p[2]].timeline[p[3]].value = "error"

\* C18: a sync that is not a replay and got its push rules fails with the
\* error of the crypto engine exactly when an OlmMachine exists and fails on
\* one of the encrypted timeline events.  Otherwise, over a working store,
\* the sync returns Ok with every timeline in full: an event the OlmMachine
\* is unable to decrypt is there as a UTD event with its diagnostic info, and
\* without an OlmMachine every encrypted event is there as a plaintext wrapper.
C18_UnableToDecryptIsNoError ==
    [][(/\ Called("receive_sync_response")
        /\ sync_token # call'.next_batch
        /\ (call'.env.rules_ok \/ (call'.input.push_rules.present
                                     /\ call'.input.push_rules.valid)))
       => /\ (ret'.status = "CryptoStoreError") <=> CryptoFails(call'.input)
          /\ (~CryptoFails(call'.input) /\ call'.env.save_ok)
                => /\ ret'.status = "Ok"
                   /\ \A b \in {"join", "leave"} : \A r \in DOMAIN call'.input[b] :
                         /\ r \in DOMAIN ret'.response.timeline[b]
                         /\ Len(ret'.response.timeline[b][r]) = Len(call'.input[b][r].timeline)
                   /\ \A p \in EncryptedPositions(call'.input) :
                         LET raw == call'.input[p[1]][p[2]].timeline[p[3]]
                             event == ret'.response.timeline[p[1]][p[2]][p[3]]
                         IN  /\ (olm_machine /\ raw.value = "utd")
                                  => /\ event.kind = "UnableToDecrypt"
                                     /\ event.utd_info = "MissingMegolmSession"
                                     /\ event.raw = raw
                             /\ ~olm_machine
                                  => event.kind = "PlainText" /\ event.raw = raw ]_vars

C18_Witness ==
    /\ SyncReturned
    /\ olm_machine
    /\ R1 \in DOMAIN ret.response.timeline.join
    /\ call.input.join[R1].timeline = MixedTimeline
    /\ MixedTimeline[4] = Encrypted("utd")
    /\ ret.response.timeline.join[R1][4].kind = "UnableToDecrypt"
    /\ ret.response.timeline.join[R1][5].raw = Message

\* The TimelineEvents a sync returned with push actions.
EvaluatedEvents(response) ==
    UNION {UNION {{response.timeline[b][r][k] : k \in 1..Len(response.timeline[b][r])} :
                     r \in DOMAIN response.timeline[b]} : b \in {"join", "leave"}}

\* The Ruleset the precedence of the claim picks, from the state before the call.
RulesetByPrecedence(response) ==
    IF response.push_rules.present /\ response.push_rules.valid
    THEN [kind |-> "global", id |-> response.push_rules.global]
    ELSE IF store.push_rules.present /\ store.push_rules.valid
    THEN [kind |-> "global", id |-> store.push_rules.global]
    ELSE IF session_meta # NoSession
    THEN [kind |-> "server_default", id |-> session_meta]
    ELSE [kind |-> "empty", id |-> ""]

\* C19: a sync that is not a replay and whose read of the store, if any,
\* succeeds gets one Ruleset, chosen by precedence: the m.push_rules event of
\* the response if it is there and deserializes, else the one the store holds
\* if it is there and deserializes, else the server default of the logged-in
\* user, else (no session) the empty Ruleset; and every push action of the
\* sync is an action of that Ruleset.
C19_RulesetPrecedence ==
    [][(/\ Called("receive_sync_response")
        /\ sync_token # call'.next_batch
        /\ (call'.env.rules_ok \/ (call'.input.push_rules.present
                                     /\ call'.input.push_rules.valid)))
       => LET chosen == RulesetByPrecedence(call'.input)
          IN  /\ Cardinality(Positions(trace', "get_push_rules")) = 1
              /\ \A i \in Positions(trace', "get_push_rules") :
                    /\ trace'[i].what = chosen.kind
                    /\ trace'[i].users = IF chosen.kind = "empty" THEN {} ELSE {chosen.id}
              /\ \A event \in EvaluatedEvents(ret'.response) :
                    event.push_actions.some => event.push_actions.ruleset = chosen ]_vars

\* A sync without push rules of its own evaluated its events with the
\* Ruleset an earlier sync had persisted.
C19_Witness ==
    /\ SyncReturned
    /\ ~call.input.push_rules.present
    /\ store.push_rules = PushRulesEvent("rules-a")
    /\ DidWith(trace, "get_push_rules", "global")
    /\ \E event \in EvaluatedEvents(ret.response) :
          /\ event.push_actions.some
          /\ event.push_actions.ruleset = [kind |-> "global", id |-> "rules-a"]

\* The latest call was a sync that ended with an error that is not the error
\* of its save_changes.
FailedBeforeCommit ==
    /\ call.op = "receive_sync_response"
    /\ ret.status \notin {"Ok", "none"}
    /\ ~DidWith(trace, "save_changes", "error")

\* C22: a sync that returns an error before its commit region leaves the
\* state store as it was and replaces no Room's RoomInfo; and in every sync the
\* store changes only by one successful save_changes, and a Room's RoomInfo is
\* replaced only by a set_room_info that comes after it.
C22_NoWriteBeforeCommit ==
    [][Called("receive_sync_response")
       => /\ (ret'.status \notin {"Ok", "none"} /\ ~DidWith(trace', "save_changes", "error"))
                => /\ ~Did(trace', "lock")
                   /\ store' = store
                   /\ \A r \in DOMAIN rooms : r \in DOMAIN rooms' /\ rooms'[r] = rooms[r]
                   /\ sync_token' = sync_token
                   /\ ~Did(trace', "save_changes")
                   /\ ~Did(trace', "set_room_info")
          /\ store' # store
                => /\ Cardinality(Positions(trace', "save_changes")) = 1
                   /\ DidWith(trace', "save_changes", "ok")
          /\ \A r \in DOMAIN rooms :
                rooms'[r] # rooms[r]
                    => \E i \in Positions(trace', "save_changes"),
                          j \in Positions(trace', "set_room_info") :
                            /\ trace'[i].what = "ok"
                            /\ trace'[j].room = r
                            /\ i < j ]_vars

\* The decryption of a timeline event of a known, persisted room failed.
C22_Witness ==
    /\ FailedBeforeCommit
    /\ ret.status = "CryptoStoreError"
    /\ DidWith(trace, "crypto", "try_decrypt_room_event")
    /\ R1 \in DOMAIN call.input.join
    /\ R1 \in DOMAIN rooms
    /\ R1 \in DOMAIN store.room_infos
    /\ rooms[R1] = store.room_infos[R1]

\* A response that holds invited rooms and nothing else.
InviteOnly(response) ==
    /\ DOMAIN response.invite # {}
    /\ DOMAIN response.join = {}
    /\ DOMAIN response.leave = {}
    /\ DOMAIN response.knock = {}
    /\ ~response.ignored_user_list.present
    /\ ~response.push_rules.present

C26_RoomStatePersisted ==
    (call.op \in RoomOps /\ ret.status = "Ok")
        => /\ call.room \in DOMAIN store.room_infos
           /\ store.room_infos[call.room].state = TargetOf(call.op)

\* Rooms that a response lists in the join bucket and in a later bucket too.
InLaterBucket(response) ==
    (DOMAIN response.join)
        \cap ((DOMAIN response.leave) \cup (DOMAIN response.invite) \cup (DOMAIN response.knock))

\* C28: what the join bucket put into the RoomInfo of a room is still there
\* at the commit when a later bucket of the same sync handles the room again:
\* the members marked Missing by a limited timeline stay Missing, and the
\* encryption its events announced stays on.
C28_ChangesBeforeRoom ==
    SyncReturned =>
        \A r \in InLaterBucket(call.input) \cap ret.response.join :
            /\ call.input.join[r].limited => store.room_infos[r].members_sync = "Missing"
            /\ (\E k \in 1..Len(call.input.join[r].state) :
                    call.input.join[r].state[k] = Encryption)
                  => store.room_infos[r].encryption

\* C29: the join, invite and knock buckets mark the RoomInfo of their rooms
\* fully synced in StateChanges; as the status never goes back to Partial
\* within the batch, the RoomInfo committed for such a room is fully synced.
C29_StateSyncMonotone ==
    SyncReturned =>
        \A r \in ret.response.join \cup ret.response.invite \cup ret.response.knocked :
            /\ r \in DOMAIN store.room_infos
            /\ store.room_infos[r].state_sync = "Full"

\* Rooms that a response lists in the leave bucket and in no later bucket.
LeftOnly(response) ==
    (DOMAIN response.leave) \ ((DOMAIN response.invite) \cup (DOMAIN response.knock))

\* C30: the RoomInfo committed for a room of the leave bucket is Left and
\* partially synced, and carries what the same steps give a joined room: the
\* prev_batch token of its timeline, and members marked Missing when the
\* timeline is limited.
C30_LeftRoomLikeJoinedRoom ==
    SyncReturned =>
        \A r \in LeftOnly(call.input) \cap ret.response.leave :
            /\ store.room_infos[r].state = "Left"
            /\ store.room_infos[r].state_sync = "Partial"
            /\ store.room_infos[r].prev_batch = call.input.leave[r].prev_batch
            /\ call.input.leave[r].limited => store.room_infos[r].members_sync = "Missing"


\* The entries of every required_state vector of a v5 request.
RequestedByRequest(request) ==
    UNION ({Range(request.lists[l]) : l \in DOMAIN request.lists}
           \cup {Range(request.room_subscriptions[r]) :
                 r \in DOMAIN request.room_subscriptions})

StrictlyAscending(vec) == \A i, j \in DOMAIN vec : i < j => vec[i] < vec[j]

\* C25: for_room(r) returns the per-room list when one exists for r and the
\* default list otherwise; a value built from a v5 sync request has an empty
\* per-room map and a default that is the sorted, duplicate-free union of
\* required_state over all lists and all room subscriptions, and for_room
\* returns that union for every room.
C25_ForRoom ==
    call.op = "for_room" =>
        /\ call.input.from = "new" =>
              ret.response.for_room =
                  IF call.room \in DOMAIN call.input.for_rooms
                  THEN call.input.for_rooms[call.room]
                  ELSE call.input.default
        /\ call.input.from = "v5" =>
              /\ DOMAIN ret.response.requested.for_rooms = {}
              /\ Range(ret.response.requested.default) = RequestedByRequest(call.input.request)
              /\ StrictlyAscending(ret.response.requested.default)
              /\ ret.response.for_room = ret.response.requested.default

\* A request whose two lists overlap and whose subscription of R1 repeats an
\* entry: for_room(R1) is the union in order, not the subscription's vector.
C25_Witness ==
    /\ call.op = "for_room"
    /\ call.input.from = "v5"
    /\ call.room = R1
    /\ DOMAIN call.input.request.lists = ListNames
    /\ call.input.request.lists["foo"] = <<RoomEncryption, RoomAvatar>>
    /\ call.input.request.lists["bar"] = <<RoomTopic, RoomAvatar, RoomEncryption>>
    /\ DOMAIN call.input.request.room_subscriptions = {R1}
    /\ call.input.request.room_subscriptions[R1] = <<RoomTopic, RoomTopic>>
    /\ ret.response.for_room = <<RoomAvatar, RoomEncryption, RoomTopic>>


\* None of the room's encrypted events yields a latest event: there is no
\* OlmMachine, or none of them decrypts to a room message.
NoSuitableCandidate(room) ==
    \/ ~olm_machine
    \/ \A i \in DOMAIN room.latest_encrypted_events :
          room.latest_encrypted_events[i].value # "decrypts"

\* C24: decrypt_latest_events on a room that has no latest_encrypted_events, or
\* none that decrypts to a suitable event, changes nothing: latest_event and
\* latest_encrypted_events are as before, no RoomInfo is added to the
\* StateChanges, and LATEST_EVENT is not among the room's notable-update reasons.
C24_NothingToPromote ==
    (call.op = "decrypt_latest_events" /\ NoSuitableCandidate(call.input)) =>
        /\ ret.response.room.latest_event = call.input.latest_event
        /\ ret.response.room.latest_encrypted_events = call.input.latest_encrypted_events
        /\ DOMAIN ret.response.changes.room_infos = {}
        /\ "LATEST_EVENT" \notin GetOr(ret.response.room_info_notable_updates, call.room, {})

\* With an OlmMachine, a room whose encrypted events decrypt to a reaction and
\* not at all keeps the latest event it had.
C24_Witness ==
    /\ call.op = "decrypt_latest_events"
    /\ olm_machine
    /\ call.input.latest_encrypted_events =
           << Encrypted("decrypts_to_reaction"), Encrypted("utd") >>
    /\ call.input.latest_event.some
    /\ ret.response.room = call.input
    /\ DOMAIN ret.response.changes.room_infos = {}


\* The reasons of the RoomInfoNotableUpdate the call emitted for the room.
EmittedReasons(tr, room_id) ==
    UNION {tr[i].users : i \in {j \in DOMAIN tr : tr[j].k = "set_room_info"
                                                   /\ tr[j].room = room_id}}

\* A committed sync, no replay of the stored token, whose join bucket brings
\* the room one unread marker, of the stable or the unstable type, with the
\* given value.
BringsUnreadMarker(room_id, unread) ==
    /\ Called("receive_sync_response")
    /\ ret'.status = "Ok"
    /\ call'.next_batch # sync_token
    /\ room_id \in DOMAIN call'.input.join
    /\ room_id \notin DOMAIN call'.input.leave
    /\ call'.input.join[room_id].account_data
           \in {<<MarkedUnread(unread)>>, <<UnstableMarkedUnread(unread)>>}

\* C27: when a sync delivers a MarkedUnread room account data event (stable or
\* unstable type) whose value differs from the room's is_marked_unread, the
\* committed RoomInfo carries the new value and the RoomInfoNotableUpdate
\* emitted for the room at commit contains UNREAD_MARKER; when the value is
\* unchanged no UNREAD_MARKER reason is recorded.
C27_UnreadMarkerReason ==
    [][\A room_id \in Rooms, unread \in BOOLEAN :
          BringsUnreadMarker(room_id, unread) =>
              /\ rooms'[room_id].is_marked_unread = unread
              /\ store'.room_infos[room_id].is_marked_unread = unread
              /\ ("UNREAD_MARKER" \in EmittedReasons(trace', room_id))
                     <=> (unread # (room_id \in DOMAIN rooms /\ rooms[room_id].is_marked_unread))
      ]_vars

\* At most one task is between its save_changes and its in-memory apply, and
\* it holds sync_lock.
RegionsExclusive ==
    /\ \A t \in TaskIds : tasks[t].pc = "saved" => sync_lock = t
    /\ \A t \in TaskIds : sync_lock = t => tasks[t].pc = "saved"

\* Every persisted room is held in memory with its persisted RoomInfo.
RoomsAsPersisted ==
    \A room_id \in DOMAIN store.room_infos :
        room_id \in DOMAIN rooms /\ rooms[room_id] = store.room_infos[room_id]

\* A Room as get_or_create_room creates it.
JustCreated(info) == info = NewRoomInfo(info.state)

Qualifying(enc_events) ==
    {i \in DOMAIN enc_events : olm_machine /\ enc_events[i].value = "decrypts"}

\* C31: decrypt_latest_suitable_event returns the candidate with the greatest
\* index in latest_encrypted_events that decrypts and is suitable, together
\* with that index; candidates that are undecryptable, fail with a decryption
\* error, do not deserialize or are unsuitable are passed over, and nothing is
\* returned when no candidate qualifies.
C31_NewestSuitableCandidate ==
    call.op = "decrypt_latest_events" =>
        LET enc_events == call.input.latest_encrypted_events
            suitable == ret.response.suitable
        IN  IF Qualifying(enc_events) = {}
            THEN ~suitable.found.some
            ELSE /\ suitable.found.some
                 /\ suitable.found_index = LastOf(Qualifying(enc_events))
                 /\ suitable.found.event.kind = "Decrypted"
                 /\ suitable.found.event.raw.type = "m.room.message"

\* Of two stored events that both decrypt to a message the newer one is
\* returned, with its index.
C31_Witness ==
    /\ call.op = "decrypt_latest_events"
    /\ olm_machine
    /\ call.input.latest_encrypted_events = << Encrypted("decrypts"), Encrypted("decrypts") >>
    /\ ret.response.suitable.found.some
    /\ ret.response.suitable.found_index = 2


\* A sync that was processed and returned Ok, as a step.
SyncCommitted ==
    /\ Called("receive_sync_response")
    /\ ret'.status = "Ok"
    /\ call'.next_batch # sync_token

\* The rooms a response lists in the invite bucket or in the knock bucket,
\* and in no other bucket.
StrippedOnly(response) ==
    (((DOMAIN response.invite) \cup (DOMAIN response.knock))
        \ ((DOMAIN response.invite) \cap (DOMAIN response.knock)))
        \ ((DOMAIN response.join) \cup (DOMAIN response.leave))

\* The stripped state events a response brings such a room, those that
\* deserialize.
StrippedEventsOf(response, room_id) ==
    SelectSeq(IF room_id \in DOMAIN response.knock THEN response.knock[room_id].state
              ELSE response.invite[room_id].state,
              Deserializes)

HasKey(events, key) == \E i \in DOMAIN events : StateKeyOf(events[i]) = key

\* The last event of the list filed under the key.
LastWith(events, key) ==
    events[LastOf({i \in DOMAIN events : StateKeyOf(events[i]) = key})]

\* The state event a store holds for a room under the key, if any.
Stored(st, room_id, key) ==
    IF room_id \in DOMAIN st.state /\ key \in DOMAIN st.state[room_id]
    THEN << st.state[room_id][key] >> ELSE << >>

\* The own display name and the power levels of the given events, and where
\* the events have none, those of the events the store holds.
NameFrom(events, known, user_id) ==
    LET own == << "m.room.member", user_id >>
        member == IF HasKey(events, own) THEN LastWith(events, own) ELSE known[1]
    IN  IF member.displayname = "" THEN LocalPart(user_id) ELSE member.displayname

PowerLevelsFrom(events, known) ==
    IF HasKey(events, PowerLevelsKey) THEN LastWith(events, PowerLevelsKey).value
    ELSE IF known # << >> THEN known[1].value
    ELSE "none"

\* C32: for a room of the invite or of the knock bucket, every stripped state
\* event that deserializes is folded into the RoomInfo and filed in the
\* stripped state under its (type, state key) before any push action is
\* computed: each notification of the room is for an event as it is filed,
\* there is one at most per (type, state key), and all carry the push context
\* of the completely folded state (own display name and power levels of the
\* last such events of the list); without own member information there is
\* none.  The room is committed in the state of its bucket, fully synced.
C32_InvitedStateFoldedFirst ==
    [][SyncCommitted =>
        \A r \in StrippedOnly(call'.input) :
            LET events == StrippedEventsOf(call'.input, r)
                own == << "m.room.member", session_meta >>
                known_own == Stored(store, r, own)
                ns == GetOr(ret'.response.notifications, r, << >>)
            IN  /\ \A i \in DOMAIN events :
                      /\ StateKeyOf(events[i]) \in DOMAIN store'.stripped_state[r]
                      /\ store'.stripped_state[r][StateKeyOf(events[i])]
                             = LastWith(events, StateKeyOf(events[i]))
                /\ HasKey(events, StateKeyOf(Encryption)) => store'.room_infos[r].encryption
                /\ \A i \in DOMAIN ns :
                      /\ ns[i].kind = "Stripped"
                      /\ HasKey(events, StateKeyOf(ns[i].event))
                      /\ ns[i].event = LastWith(events, StateKeyOf(ns[i].event))
                      /\ \A j \in DOMAIN ns :
                            StateKeyOf(ns[j].event) = StateKeyOf(ns[i].event) => j = i
                      /\ HasKey(events, own) \/ known_own # << >>
                      /\ ns[i].actions.user_display_name
                             = NameFrom(events, known_own, session_meta)
                      /\ ns[i].actions.power_levels
                             = PowerLevelsFrom(events, Stored(store, r, PowerLevelsKey))
                      /\ ns[i].actions.member_count
                             = (IF r \in DOMAIN rooms THEN rooms[r].active_members_count ELSE 0)
                /\ rooms'[r].state = BucketState(call'.input, r)
                /\ store'.room_infos[r].state = BucketState(call'.input, r)
                /\ rooms'[r].state_sync = "Full"
                /\ store'.room_infos[r].state_sync = "Full"
      ]_vars

\* The invitation of the own user is notified with the power levels of an
\* event that follows it in the stripped state.
C32_Witness ==
    /\ SyncReturned
    /\ call.input.invite = Only(R1, InviteWithPowerLevels)
    /\ R1 \in DOMAIN ret.response.notifications
    /\ Len(ret.response.notifications[R1]) = 1
    /\ ret.response.notifications[R1][1].event = Member(Alice, Bob, "invite", "A")
    /\ ret.response.notifications[R1][1].actions.power_levels = "pl1"
    /\ store.stripped_state[R1][PowerLevelsKey] = PowerLevels("pl1")
    /\ rooms[R1].state = "Invited"
    /\ rooms[R1].encryption


\* The state events a bucket's push context can draw on at timeline position
\* k: those of the state section, then those of the timeline up to k.
SeenBy(new_info, k) ==
    SelectSeq(new_info.state, Deserializes)
        \o SelectSeq(SubSeq(new_info.timeline, 1, k), Deserializes)

\* The member count of the RoomInfo a bucket works on.
MemberCountIn(bucket, new_info, known, room_id) ==
    IF bucket = "join" /\ new_info.summary.some THEN new_info.summary.active_members
    ELSE IF room_id \in DOMAIN known THEN known[room_id].active_members_count
    ELSE 0

\* C33: the timeline events of a room come back in the order they came in,
\* and the push actions of the event at position k were computed from the
\* member count of the RoomInfo and from the own member event and the power
\* levels that are the last ones among the state section and the timeline
\* positions up to and including k (else those of the store), never from an
\* event of a later position.
C33_PushContextFollowsTimeline ==
    [][SyncCommitted =>
        \A bucket \in {"join", "leave"} :
          \A r \in DOMAIN call'.input[bucket] :
            LET new_info == call'.input[bucket][r]
                tl == ret'.response.timeline[bucket][r]
                own == << "m.room.member", session_meta >>
            IN  /\ Len(tl) = Len(new_info.timeline)
                /\ \A k \in DOMAIN tl :
                      /\ new_info.timeline[k].type # "m.room.encrypted"
                            => tl[k].raw = new_info.timeline[k]
                      /\ tl[k].push_actions.some =>
                            /\ HasKey(SeenBy(new_info, k), own) \/ Stored(store, r, own) # << >>
                            /\ tl[k].push_actions.user_display_name
                                   = NameFrom(SeenBy(new_info, k), Stored(store, r, own),
                                              session_meta)
                            /\ tl[k].push_actions.power_levels
                                   = PowerLevelsFrom(SeenBy(new_info, k),
                                                     Stored(store, r, PowerLevelsKey))
                            /\ tl[k].push_actions.member_count
                                   = MemberCountIn(bucket, new_info, rooms, r)
      ]_vars

\* The display name and the power levels change inside the timeline: the
\* messages before and after the change carry the values of their position.
C33_Witness ==
    /\ SyncReturned
    /\ call.input.join = Only(R1, ChangingContext)
    /\ R1 \in DOMAIN ret.response.timeline.join
    /\ LET tl == ret.response.timeline.join[R1]
       IN  /\ tl[1].push_actions.user_display_name = "A"
           /\ tl[1].push_actions.power_levels = "pl1"
           /\ tl[3].push_actions.user_display_name = "A2"
           /\ tl[3].push_actions.power_levels = "pl1"
           /\ tl[5].push_actions.power_levels = "pl2"
           /\ tl[5].push_actions.member_count = 2


HasNotifyingActions(event) == event.push_actions.some /\ event.push_actions.notify

\* The notifications owed for a returned timeline: one for each event whose
\* actions notify, in the order of the timeline.
NotificationsOwed(tl) ==
    LET notifying == SelectSeq(tl, HasNotifyingActions)
    IN  [i \in DOMAIN notifying |->
            [kind |-> "Sync", event |-> notifying[i].raw, actions |-> notifying[i].push_actions]]

IsSyncNotification(n) == n.kind = "Sync"

TimelineReturned(response, bucket, room_id) ==
    IF room_id \in DOMAIN response.timeline[bucket] THEN response.timeline[bucket][room_id]
    ELSE << >>

\* C34: a timeline event that deserializes gets push actions, those of the
\* sync's Ruleset, exactly if own-member information is available at its
\* position (in the state events seen so far or in the store): an event
\* without it gets none and the next event tries again.  The room's
\* notifications from timelines are exactly the events whose actions notify,
\* in timeline order.
C34_ActionsAndNotifications ==
    [][SyncCommitted =>
        \A r \in Rooms :
            /\ \A bucket \in {"join", "leave"} :
                  r \in DOMAIN call'.input[bucket] =>
                     LET new_info == call'.input[bucket][r]
                         tl == ret'.response.timeline[bucket][r]
                         own == << "m.room.member", session_meta >>
                     IN  \A k \in DOMAIN tl :
                            Deserializes(new_info.timeline[k]) =>
                               /\ tl[k].push_actions.some
                                      <=> \/ HasKey(SeenBy(new_info, k), own)
                                          \/ Stored(store, r, own) # << >>
                               /\ tl[k].push_actions.some =>
                                      tl[k].push_actions.ruleset
                                          = RulesetByPrecedence(call'.input)
            /\ SelectSeq(GetOr(ret'.response.notifications, r, << >>), IsSyncNotification)
                   = NotificationsOwed(TimelineReturned(ret'.response, "join", r))
                        \o NotificationsOwed(TimelineReturned(ret'.response, "leave", r))
      ]_vars

\* In a room the store knows nothing of, the message before the own member
\* event has no actions; the member event and the message after it have, and
\* of these two only the message is notified.
C34_Witness ==
    /\ SyncReturned
    /\ call.input.join = Only(R1, LateOwnMember)
    /\ R1 \in DOMAIN ret.response.timeline.join
    /\ LET tl == ret.response.timeline.join[R1]
       IN  /\ ~tl[1].push_actions.some
           /\ tl[2].push_actions.some /\ ~tl[2].push_actions.notify
           /\ tl[3].push_actions.some /\ tl[3].push_actions.notify
           /\ tl[3].push_actions.user_display_name = "alice"
           /\ ret.response.notifications[R1]
                  = << [kind |-> "Sync", event |-> Message, actions |-> tl[3].push_actions] >>


\* The joined or invited members of a room, by the member events the store
\* holds, whose display name is the given one.
ActiveMembersNamed(st, room_id, display_name) ==
    {u \in Users :
        /\ room_id \in DOMAIN st.state
        /\ << "m.room.member", u >> \in DOMAIN st.state[room_id]
        /\ st.state[room_id][<< "m.room.member", u >>].membership \in {"join", "invite"}
        /\ st.state[room_id][<< "m.room.member", u >>].displayname = display_name}

\* C35: after a committed sync or receive_all_members, every bucket of the
\* ambiguity maps the store holds for a room is the set of the room's active
\* (joined or invited) members whose current display name is the bucket's:
\* no member who left or was banned is in a bucket, and no bucket is empty.
C35_AmbiguityMapsExact ==
    (call.op \in {"receive_sync_response", "receive_all_members"} /\ ret.status = "Ok") =>
        \A r \in DOMAIN store.ambiguity_maps :
            \A d \in DOMAIN store.ambiguity_maps[r] :
                /\ store.ambiguity_maps[r][d] # {}
                /\ store.ambiguity_maps[r][d] = ActiveMembersNamed(store, r, d)


\* The users the state section of a room update makes joined or invited.
StateSectionActive(new_info) ==
    {new_info.state[i].state_key :
        i \in {j \in DOMAIN new_info.state :
                  /\ new_info.state[j].type = "m.room.member"
                  /\ new_info.state[j].membership \in {"join", "invite"}}}

\* C36: the member updates of a sync are sent after its commit region was
\* left with the changes saved: one RoomMembersUpdate::Partial for each room
\* of the join bucket, with the users the member events of the room's state
\* section make joined or invited, whatever the timeline says of members;
\* none for a room that is in no join bucket, and none when the sync fails.
C36_MemberUpdatesAfterCommit ==
    SyncProcessed =>
        LET sent == Positions(trace, "room_member_updates")
        IN  IF ret.status = "Ok"
            THEN /\ \A r \in Rooms :
                       Cardinality({i \in sent : trace[i].room = r})
                           = (IF r \in DOMAIN call.input.join THEN 1 ELSE 0)
                 /\ \A i \in sent :
                       /\ trace[i].what = "Partial"
                       /\ trace[i].users = StateSectionActive(call.input.join[trace[i].room])
                       /\ \E j \in Positions(trace, "save_changes") :
                             j < i /\ trace[j].what = "ok"
                       /\ \E j \in Positions(trace, "unlock") : j < i
            ELSE sent = {}

\* The own join in the timeline of a room whose state section names nobody:
\* the update sent after the commit carries no user.
C36_Witness ==
    /\ SyncProcessed
    /\ ret.status = "Ok"
    /\ call.input.join = Only(R1, LateOwnMember)
    /\ \E i \in Positions(trace, "room_member_updates") :
          /\ trace[i].room = R1
          /\ trace[i].users = {}
          /\ \E j \in Positions(trace, "unlock") : j < i


\* Task t is a sync and goes from pc `from` to pc `to` in this step.
SyncTaskMoves(t, from, to) ==
    /\ tasks[t].pc = from
    /\ tasks'[t].pc = to
    /\ IF from = "idle" THEN tasks'[t].op = "receive_sync_response"
       ELSE tasks[t].op = "receive_sync_response"

\* What a sync of a room without a gap in its timeline, without state events
\* and without account data leaves of the RoomInfo it cloned as it found it.
KeptFromClone(info) == << info.members_sync, info.encryption, info.is_marked_unread >>

\* The same for a room with a gap in its timeline: the members are Missing.
KeptFromCloneLimited(info) == << "Missing", info.encryption, info.is_marked_unread >>

LimitedIn(response, room_id) ==
    room_id \in DOMAIN response.join /\ response.join[room_id].limited

\* The store and the Room of room_id hold this RoomInfo.
StoreAndRoomHold(st, known, room_id, info) ==
    /\ room_id \in DOMAIN st.room_infos
    /\ st.room_infos[room_id] = info
    /\ known[room_id] = info

C38_WriteOnlyIfStateDiffers ==
    [][\A t \in TaskIds :
          (/\ tasks[t].pc = "want_lock"
           /\ tasks[t].op = "room_state"
           /\ tasks'[t].pc = "saved")
          => /\ rooms[tasks[t].room].state # tasks[t].target
             /\ ~(/\ rooms[tasks[t].room].state_sync = "Full"
                  /\ rooms[tasks[t].room].state = tasks[t].target
                  /\ store'.room_infos[tasks[t].room].state_sync = "Partial")
      ]_vars


\* Task t is a receive_all_members call and goes from pc `from` to pc `to`.
MembersTaskMoves(t, from, to) ==
    /\ tasks[t].pc = from
    /\ tasks[t].op = "receive_all_members"
    /\ tasks'[t].pc = to

OwnMemberKey == << "m.room.member", Alice >>

RoomsLoaded(st, known) ==
    \A r \in DOMAIN st.room_infos : r \in DOMAIN known /\ known[r] = st.room_infos[r]

\* C40: activate loads the rooms, then the sync token, then sets the session
\* and then creates the OlmMachine.  When loading the rooms fails, nothing
\* was loaded and no session set; when loading the sync token fails, the
\* rooms are loaded and no session is set; either way a client that was not
\* active is not active afterwards.  When creating the OlmMachine fails,
\* activate returns the error with rooms and sync token loaded and the session
\* set: the client is active and has no OlmMachine.  regenerate_olm of a
\* client without a session returns OlmMissingSession and changes nothing.
C40_ActivateOrder ==
    [][/\ (Called("activate") /\ call'.env = "load_rooms_error") =>
             /\ ret'.status = "StoreError"
             /\ ClientUnchanged
             /\ ~LoggedIn => ~is_active([session_meta |-> session_meta'])
       /\ (Called("activate") /\ call'.env = "load_sync_token_error") =>
             /\ ret'.status = "StoreError"
             /\ RoomsLoaded(store, rooms')
             /\ UNCHANGED << session_meta, sync_token, olm_machine >>
             /\ ~LoggedIn => ~is_active([session_meta |-> session_meta'])
       /\ (Called("activate") /\ call'.env = "olm_error" /\ ~LoggedIn) =>
             /\ ret'.status = "OlmError"
             /\ RoomsLoaded(store, rooms')
             /\ sync_token' = store.sync_token
             /\ trace'[1].what = "load_rooms" /\ trace'[2].what = "load_sync_token"
             /\ session_meta' = call'.input
             /\ is_active([session_meta |-> session_meta'])
             /\ ~olm_machine'
       /\ (Called("activate") /\ call'.env = "ok" /\ ~LoggedIn) =>
             /\ ret'.status = "Ok"
             /\ RoomsLoaded(store, rooms')
             /\ sync_token' = store.sync_token
             /\ session_meta' = call'.input
             /\ olm_machine'
       /\ (Called("regenerate_olm") /\ ~LoggedIn) =>
             /\ ret'.status = "OlmMissingSession"
             /\ ClientUnchanged
       /\ (Called("regenerate_olm") /\ LoggedIn) =>
             /\ ret'.status = IF call'.env = "ok" THEN "Ok" ELSE "OlmError"
             /\ olm_machine' = IF call'.env = "ok" THEN TRUE ELSE olm_machine
      ]_vars

\* The first activate of a client with persisted rooms failed to create the
\* OlmMachine: the rooms are loaded and the client is active without one.
C40_Witness ==
    /\ call.op = "activate"
    /\ call.env = "olm_error"
    /\ ret.status = "OlmError"
    /\ nops = 1
    /\ session_meta = Alice
    /\ ~olm_machine
    /\ R1 \in DOMAIN rooms
    /\ sync_token = "t1"

====
